---- MODULE Spec2Model ----
(***************************************************************************)
(* ImmersiVerse OS backend: prompt-to-world generation.                    *)
(*                                                                         *)
(* Text (prompt, title, description) is a sequence of one-character        *)
(* strings, so that str.lower, the substring test `in`, str.split,         *)
(* str.title and str.join are modelled by what they do to characters.      *)
(* Opaque tokens (enum values, prefab ids, settings values) are strings.   *)
(***************************************************************************)
EXTENDS Naturals, Integers, Sequences, FiniteSets, TLC

VARIABLES
    arg,               \* classifier spec: the prompt handed to _infer_world_type
    ret,               \* classifier spec: what the call returned
    world_blueprints,  \* rows of table world_blueprints, keyed by primary key id
    heap,              \* the collections (dict / list objects) live in the process
    last,              \* the latest HTTP exchange on POST /prompt2world/
    held,              \* blueprints of earlier responses the caller still holds
    calls,             \* number of POST /prompt2world/ requests served
    user_sessions,     \* rows of table user_sessions, in insertion order
    experience_cards,  \* rows of table experience_cards, in insertion order
    telemetry_events,  \* rows of table telemetry_events, in insertion order
    utcnow,            \* what datetime.utcnow() returns
    requests,          \* number of requests served by the other protected endpoints
    auth_requests,     \* number of requests served by the /auth endpoints
    threads            \* the frames of the generate calls running concurrently

\* the tables and counters only the other endpoints touch
api_vars ==
    <<user_sessions, experience_cards, telemetry_events, utcnow, requests, auth_requests>>

vars == <<arg, ret, world_blueprints, heap, last, held, calls, api_vars, threads>>

None == "None"

(***************************************************************************)
(* Bounds of the model.                                                    *)
(***************************************************************************)
MaxWords == 2
NumIds == 2
MaxCalls == 2
MaxServiceCalls == 3
MaxHeld == 1

(***************************************************************************)
(* Characters and the str methods the service uses.                        *)
(***************************************************************************)
ascii_lowercase ==
    <<"a", "b", "c", "d", "e", "f", "g", "h", "i", "j", "k", "l", "m",
      "n", "o", "p", "q", "r", "s", "t", "u", "v", "w", "x", "y", "z">>

ascii_uppercase ==
    <<"A", "B", "C", "D", "E", "F", "G", "H", "I", "J", "K", "L", "M",
      "N", "O", "P", "Q", "R", "S", "T", "U", "V", "W", "X", "Y", "Z">>

Range(f) == {f[i] : i \in DOMAIN f}

whitespace == {" ", "\t", "\n"}

uppercase_letters == Range(ascii_uppercase)

\* U+017F LATIN SMALL LETTER LONG S, a lower-case letter outside ASCII: str.lower()
\* keeps it, str.upper() and str.title() turn it into "S"
long_s == "U+017F"

lowercase_letters == Range(ascii_lowercase) \cup {long_s}

IsUpper(c) == c \in uppercase_letters

IsLower(c) == c \in lowercase_letters

IsCased(c) == IsUpper(c) \/ IsLower(c)

LetterIndex(c, letters) == CHOOSE i \in DOMAIN letters : letters[i] = c

char_lower(c) == IF IsUpper(c) THEN ascii_lowercase[LetterIndex(c, ascii_uppercase)] ELSE c

char_upper(c) ==
    IF c = long_s THEN "S"
    ELSE IF IsLower(c) THEN ascii_uppercase[LetterIndex(c, ascii_lowercase)]
    ELSE c

\* the mutation of lower that leaves the text as it is
lower_nothing(s) == s

\* str.lower()
lower(s) == [i \in 1..Len(s) |-> char_lower(s[i])]

\* the mutation of Contains that tests membership in text.split() instead
IsSplitWord(word, text) ==
    \E i \in 0..(Len(text) - Len(word)) :
        /\ \A j \in 1..Len(word) : text[i + j] = word[j]
        /\ Len(word) > 0
        /\ (i = 0 \/ text[i] \in whitespace)
        /\ (i + Len(word) = Len(text) \/ text[i + Len(word) + 1] \in whitespace)

\* `word in text` on two str values: text has word as a contiguous substring
Contains(word, text) ==
    \E i \in 0..(Len(text) - Len(word)) :
        \A j \in 1..Len(word) : text[i + j] = word[j]

\* first index >= from of a character that is not whitespace (Len(s)+1 if none)
SkipSpace(s, from) ==
    IF \A k \in from..Len(s) : s[k] \in whitespace
    THEN Len(s) + 1
    ELSE CHOOSE i \in from..Len(s) :
            /\ s[i] \notin whitespace
            /\ \A k \in from..(i - 1) : s[k] \in whitespace

\* last index of the run of non-whitespace characters that starts at from
WordEnd(s, from) ==
    CHOOSE j \in from..Len(s) :
        /\ (j = Len(s) \/ s[j + 1] \in whitespace)
        /\ \A k \in from..j : s[k] \notin whitespace

\* str.split()[:n]: the first n maximal runs of non-whitespace characters
RECURSIVE SplitFrom(_, _, _)
SplitFrom(s, from, n) ==
    LET start == SkipSpace(s, from) IN
    IF n = 0 \/ start > Len(s)
    THEN << >>
    ELSE <<SubSeq(s, start, WordEnd(s, start))>>
             \o SplitFrom(s, WordEnd(s, start) + 1, n - 1)

split_first(s, n) == SplitFrom(s, 1, n)

\* " ".join(words)
RECURSIVE join_space(_)
join_space(words) ==
    IF Len(words) = 0 THEN << >>
    ELSE IF Len(words) = 1 THEN words[1]
    ELSE words[1] \o <<" ">> \o join_space(Tail(words))

\* str.title(): a cased character is upper-cased when the character before it
\* is not cased, lower-cased otherwise; other characters are kept.
title(s) ==
    [i \in 1..Len(s) |->
        IF ~IsCased(s[i]) THEN s[i]
        ELSE IF i > 1 /\ IsCased(s[i - 1]) THEN char_lower(s[i])
        ELSE char_upper(s[i])]

(***************************************************************************)
(* schemas.py: the enumerations and field limits.                          *)
(***************************************************************************)
WorldType ==
    {"fantasy", "sci_fi", "realistic", "surreal", "historical", "urban", "nature", "space"}

PROMPT_MIN_LENGTH == 1
PROMPT_MAX_LENGTH == 1000
TITLE_MIN_LENGTH == 1
TITLE_MAX_LENGTH == 200
DESCRIPTION_MIN_LENGTH == 1
DESCRIPTION_MAX_LENGTH == 2000
TITLE_WORDS == 5

Vector3(x, y, z) == [x |-> x, y |-> y, z |-> z]

Quaternion(x, y, z, w) == [x |-> x, y |-> y, z |-> z, w |-> w]

(***************************************************************************)
(* WorldGeneratorService._infer_world_type                                 *)
(***************************************************************************)
fantasy_keywords ==
    << <<"f", "a", "n", "t", "a", "s", "y">>,
       <<"m", "a", "g", "i", "c">>,
       <<"d", "r", "a", "g", "o", "n">>,
       <<"w", "i", "z", "a", "r", "d">>,
       <<"c", "a", "s", "t", "l", "e">> >>

sci_fi_keywords ==
    << <<"s", "p", "a", "c", "e">>,
       <<"a", "l", "i", "e", "n">>,
       <<"r", "o", "b", "o", "t">>,
       <<"f", "u", "t", "u", "r", "e">>,
       <<"s", "c", "i", "-", "f", "i">> >>

urban_keywords ==
    << <<"c", "i", "t", "y">>,
       <<"u", "r", "b", "a", "n">>,
       <<"s", "t", "r", "e", "e", "t">>,
       <<"b", "u", "i", "l", "d", "i", "n", "g">> >>

nature_keywords ==
    << <<"f", "o", "r", "e", "s", "t">>,
       <<"m", "o", "u", "n", "t", "a", "i", "n">>,
       <<"n", "a", "t", "u", "r", "e">>,
       <<"w", "i", "l", "d", "e", "r", "n", "e", "s", "s">> >>

historical_keywords ==
    << <<"m", "e", "d", "i", "e", "v", "a", "l">>,
       <<"a", "n", "c", "i", "e", "n", "t">>,
       <<"h", "i", "s", "t", "o", "r", "i", "c", "a", "l">>,
       <<"v", "i", "n", "t", "a", "g", "e">> >>

\* any(word in prompt_lower for word in words)
any_word_in(words, prompt_lower) ==
    \E k \in 1..Len(words) : Contains(words[k], prompt_lower)

\* the mutation of _infer_world_type that tests the urban rule before the others
infer_urban_first(prompt) ==
    LET prompt_lower == lower(prompt) IN
    IF any_word_in(urban_keywords, prompt_lower) THEN "urban"
    ELSE IF any_word_in(fantasy_keywords, prompt_lower) THEN "fantasy"
    ELSE IF any_word_in(sci_fi_keywords, prompt_lower) THEN "sci_fi"
    ELSE IF any_word_in(nature_keywords, prompt_lower) THEN "nature"
    ELSE IF any_word_in(historical_keywords, prompt_lower) THEN "historical"
    ELSE "realistic"

_infer_world_type(prompt) ==
    LET prompt_lower == lower(prompt) IN
    IF any_word_in(fantasy_keywords, prompt_lower) THEN "fantasy"
    ELSE IF any_word_in(sci_fi_keywords, prompt_lower) THEN "sci_fi"
    ELSE IF any_word_in(urban_keywords, prompt_lower) THEN "urban"
    ELSE IF any_word_in(nature_keywords, prompt_lower) THEN "nature"
    ELSE IF any_word_in(historical_keywords, prompt_lower) THEN "historical"
    ELSE "realistic"

\* the value each condition of the if/elif chain has on this prompt, in order
infer_conditions(prompt) ==
    LET prompt_lower == lower(prompt) IN
    << any_word_in(fantasy_keywords, prompt_lower),
       any_word_in(sci_fi_keywords, prompt_lower),
       any_word_in(urban_keywords, prompt_lower),
       any_word_in(nature_keywords, prompt_lower),
       any_word_in(historical_keywords, prompt_lower) >>

(***************************************************************************)
(* WorldGeneratorService._generate_title / _generate_description           *)
(***************************************************************************)
WorldSuffix ==
    <<" ", "W", "o", "r", "l", "d">>

\* the mutation of _generate_title that keeps four words instead of five
title_four_words(prompt, world_type) ==
    title(join_space(split_first(prompt, TITLE_WORDS - 1))) \o WorldSuffix

_generate_title(prompt, world_type) ==
    LET words == split_first(prompt, TITLE_WORDS) IN
    title(join_space(words)) \o WorldSuffix

Sentence_FANTASY ==
    <<"A", " ", "m", "a", "g", "i", "c", "a", "l", " ", "r", "e", "a", "l", "m", " ", "f", "i",
      "l", "l", "e", "d", " ", "w", "i", "t", "h", " ", "w", "o", "n", "d", "e", "r", " ", "a",
      "n", "d", " ", "e", "n", "c", "h", "a", "n", "t", "m", "e", "n", "t", ".">>
Sentence_SCI_FI ==
    <<"A", " ", "f", "u", "t", "u", "r", "i", "s", "t", "i", "c", " ", "w", "o", "r", "l", "d",
      " ", "w", "i", "t", "h", " ", "a", "d", "v", "a", "n", "c", "e", "d", " ", "t", "e", "c",
      "h", "n", "o", "l", "o", "g", "y", " ", "a", "n", "d", " ", "a", "l", "i", "e", "n", " ",
      "l", "a", "n", "d", "s", "c", "a", "p", "e", "s", ".">>
Sentence_REALISTIC ==
    <<"A", " ", "r", "e", "a", "l", "i", "s", "t", "i", "c", " ", "e", "n", "v", "i", "r", "o",
      "n", "m", "e", "n", "t", " ", "b", "a", "s", "e", "d", " ", "o", "n", " ", "r", "e", "a",
      "l", "-", "w", "o", "r", "l", "d", " ", "l", "o", "c", "a", "t", "i", "o", "n", "s", ".">>
Sentence_SURREAL ==
    <<"A", " ", "d", "r", "e", "a", "m", "l", "i", "k", "e", " ", "w", "o", "r", "l", "d", " ",
      "t", "h", "a", "t", " ", "d", "e", "f", "i", "e", "s", " ", "c", "o", "n", "v", "e", "n",
      "t", "i", "o", "n", "a", "l", " ", "r", "e", "a", "l", "i", "t", "y", ".">>
Sentence_HISTORICAL ==
    <<"A", " ", "h", "i", "s", "t", "o", "r", "i", "c", "a", "l", " ", "s", "e", "t", "t", "i",
      "n", "g", " ", "t", "h", "a", "t", " ", "c", "a", "p", "t", "u", "r", "e", "s", " ", "t",
      "h", "e", " ", "e", "s", "s", "e", "n", "c", "e", " ", "o", "f", " ", "t", "h", "e", " ",
      "p", "a", "s", "t", ".">>
Sentence_URBAN ==
    <<"A", " ", "b", "u", "s", "t", "l", "i", "n", "g", " ", "u", "r", "b", "a", "n", " ", "e",
      "n", "v", "i", "r", "o", "n", "m", "e", "n", "t", " ", "w", "i", "t", "h", " ", "m", "o",
      "d", "e", "r", "n", " ", "a", "r", "c", "h", "i", "t", "e", "c", "t", "u", "r", "e", ".">>
Sentence_NATURE ==
    <<"A", " ", "n", "a", "t", "u", "r", "a", "l", " ", "e", "n", "v", "i", "r", "o", "n", "m",
      "e", "n", "t", " ", "f", "i", "l", "l", "e", "d", " ", "w", "i", "t", "h", " ", "o", "r",
      "g", "a", "n", "i", "c", " ", "b", "e", "a", "u", "t", "y", ".">>
Sentence_SPACE ==
    <<"A", "n", " ", "o", "t", "h", "e", "r", "w", "o", "r", "l", "d", "l", "y", " ", "s", "p",
      "a", "c", "e", " ", "e", "n", "v", "i", "r", "o", "n", "m", "e", "n", "t", " ", "w", "i",
      "t", "h", " ", "c", "o", "s", "m", "i", "c", " ", "w", "o", "n", "d", "e", "r", "s", ".">>
Sentence_default ==
    <<"A", " ", "u", "n", "i", "q", "u", "e", " ", "w", "o", "r", "l", "d", " ", "t", "o", " ",
      "e", "x", "p", "l", "o", "r", "e", ".">>

GeneratedFrom ==
    <<"G", "e", "n", "e", "r", "a", "t", "e", "d", " ", "f", "r", "o", "m", ":", " ", "'">>

QuoteDotSpace ==
    <<"'", ".", " ">>

base_descriptions(world_type) ==
    CASE world_type = "fantasy" -> Sentence_FANTASY
      [] world_type = "sci_fi" -> Sentence_SCI_FI
      [] world_type = "realistic" -> Sentence_REALISTIC
      [] world_type = "surreal" -> Sentence_SURREAL
      [] world_type = "historical" -> Sentence_HISTORICAL
      [] world_type = "urban" -> Sentence_URBAN
      [] world_type = "nature" -> Sentence_NATURE
      [] world_type = "space" -> Sentence_SPACE
      [] OTHER -> Sentence_default

_generate_description(prompt, world_type) ==
    GeneratedFrom \o prompt \o QuoteDotSpace \o base_descriptions(world_type)

(***************************************************************************)
(* WorldGeneratorService: the per-category templates.                      *)
(***************************************************************************)
settings_templates ==
    [ fantasy |->
        [lighting |-> "mystical", weather |-> "ethereal",
         ambient_sound |-> "magical_forest", skybox |-> "fantasy_sky"],
      sci_fi |->
        [lighting |-> "neon", weather |-> "none",
         ambient_sound |-> "space_station", skybox |-> "space_stars"],
      realistic |->
        [lighting |-> "natural", weather |-> "clear",
         ambient_sound |-> "city_traffic", skybox |-> "realistic_sky"],
      urban |->
        [lighting |-> "street_lights", weather |-> "overcast",
         ambient_sound |-> "urban_bustle", skybox |-> "city_skyline"],
      nature |->
        [lighting |-> "sunlight", weather |-> "sunny",
         ambient_sound |-> "birds_chirping", skybox |-> "forest_canopy"] ]

\* the mutation of _generate_environment_settings whose default is the first
\* template instead of the realistic one
settings_default_first(world_type) ==
    IF world_type \in DOMAIN settings_templates
    THEN settings_templates[world_type]
    ELSE settings_templates["fantasy"]

\* settings_templates.get(world_type, settings_templates[WorldType.REALISTIC])
_generate_environment_settings(world_type) ==
    IF world_type \in DOMAIN settings_templates
    THEN settings_templates[world_type]
    ELSE settings_templates["realistic"]

\* PrefabInstance(...): scale and id come from the default factories
PrefabInstance(id, prefab_id, prefab_type, position, rotation, properties) ==
    [id |-> id, prefab_id |-> prefab_id, prefab_type |-> prefab_type,
     position |-> position, rotation |-> rotation, scale |-> Vector3(1, 1, 1),
     properties |-> properties]

\* uuids: the values uuid4() returns to this call, in the order it is called
_generate_prefab_instances(prompt, world_type, uuids) ==
    IF world_type = "fantasy" THEN
        << PrefabInstance(uuids[1], "fantasy_castle_01", "building",
                          Vector3(0, 0, 0), Quaternion(0, 0, 0, 1),
                          [theme |-> "medieval", size |-> "large"]),
           PrefabInstance(uuids[2], "magic_tree_01", "environment",
                          Vector3(10, 0, 5), Quaternion(0, 0, 0, 1),
                          [glow |-> TRUE, animated |-> TRUE]) >>
    ELSE IF world_type = "sci_fi" THEN
        << PrefabInstance(uuids[1], "space_station_01", "building",
                          Vector3(0, 0, 0), Quaternion(0, 0, 0, 1),
                          [theme |-> "futuristic", size |-> "massive"]),
           PrefabInstance(uuids[2], "hologram_display_01", "ui",
                          Vector3(5, 2, 0), Quaternion(0, 0, 0, 1),
                          [interactive |-> TRUE, glow |-> TRUE]) >>
    ELSE
        << PrefabInstance(uuids[1], "modern_building_01", "building",
                          Vector3(0, 0, 0), Quaternion(0, 0, 0, 1),
                          [theme |-> "modern", size |-> "medium"]) >>

\* the mutation of _generate_spawn_points that returns the default list for sci_fi
spawn_points_default_for_sci_fi(world_type) ==
    IF world_type = "fantasy"
    THEN <<Vector3(0, 1, 0), Vector3(10, 1, 5)>>
    ELSE <<Vector3(0, 1, 0), Vector3(5, 1, 5)>>

_generate_spawn_points(world_type) ==
    IF world_type = "fantasy"
    THEN <<Vector3(0, 1, 0), Vector3(10, 1, 5)>>
    ELSE IF world_type = "sci_fi"
    THEN <<Vector3(0, 1, 0), Vector3(5, 1, 0)>>
    ELSE <<Vector3(0, 1, 0), Vector3(5, 1, 5)>>

(***************************************************************************)
(* Objects.  heap maps a reference to the value of a dict or list object.  *)
(* References above 0 are objects built while a call runs; a reference     *)
(* below 0 would be an object built once when the module is imported.      *)
(***************************************************************************)
new_ref(h) == Cardinality({r \in DOMAIN h : r > 0}) + 1

new_object(h, value) == [ref |-> new_ref(h), heap |-> h @@ (new_ref(h) :> value)]

WorldTypeOrder ==
    <<"fantasy", "sci_fi", "realistic", "surreal", "historical", "urban", "nature", "space">>

\* the mutation of environment_settings_object that hands out one dict per
\* category, built once and shared by every call
module_level_settings_object(h, world_type) ==
    LET k == CHOOSE i \in DOMAIN WorldTypeOrder : WorldTypeOrder[i] = world_type
        ref == 0 - k
    IN  [ref |-> ref,
         heap |-> IF ref \in DOMAIN h THEN h
                  ELSE h @@ (ref :> _generate_environment_settings(world_type))]

\* the dict _generate_environment_settings returns: the templates are dict
\* literals inside the method, so every call builds its own
environment_settings_object(h, world_type) ==
    new_object(h, _generate_environment_settings(world_type))

(***************************************************************************)
(* schemas.py: validation of PromptRequest and WorldBlueprint.             *)
(***************************************************************************)
\* the mutation of validate_prefab_instances that accepts every list
validate_nothing(v) == TRUE

\* WorldBlueprint.validate_prefab_instances: TRUE when it returns v,
\* FALSE when it raises ValueError
validate_prefab_instances(v) ==
    LET instance_ids == [i \in 1..Len(v) |-> v[i].id] IN
    Len(instance_ids) = Cardinality(Range(instance_ids))

\* the mutation of PromptRequest_valid with max_length one short
PromptRequest_valid_short(body) ==
    /\ Len(body.prompt) >= PROMPT_MIN_LENGTH
    /\ Len(body.prompt) < PROMPT_MAX_LENGTH
    /\ (body.world_type = None \/ body.world_type \in WorldType)
    /\ body.user_id # None

\* PromptRequest: TRUE when the body validates, FALSE on a validation error
PromptRequest_valid(body) ==
    /\ Len(body.prompt) >= PROMPT_MIN_LENGTH
    /\ Len(body.prompt) <= PROMPT_MAX_LENGTH
    /\ (body.world_type = None \/ body.world_type \in WorldType)
    /\ body.user_id # None

\* WorldBlueprint(...): TRUE when the model validates
WorldBlueprint_valid(prompt, world_type, title_, description, prefab_instances) ==
    /\ Len(prompt) >= PROMPT_MIN_LENGTH /\ Len(prompt) <= PROMPT_MAX_LENGTH
    /\ world_type \in WorldType
    /\ Len(title_) >= TITLE_MIN_LENGTH /\ Len(title_) <= TITLE_MAX_LENGTH
    /\ Len(description) >= DESCRIPTION_MIN_LENGTH
    /\ Len(description) <= DESCRIPTION_MAX_LENGTH
    /\ validate_prefab_instances(prefab_instances)

(***************************************************************************)
(* SessionService.validate_token and the get_current_user_id dependency.   *)
(* A token is the JWT's content: the subject, the expiry time and the key  *)
(* it was signed with.                                                     *)
(***************************************************************************)
secret_key == "your-secret-key-change-in-production"

bearer == <<"b", "e", "a", "r", "e", "r">>

\* the mutation of validate_token that rejects a token from its expiry time on
validate_token_before_expiry(token, now) ==
    IF token.key # secret_key \/ token.exp <= now THEN None
    ELSE token.sub

\* jwt.decode raises JWTError for a bad signature or an expired token
validate_token(token, now) ==
    IF token.key # secret_key \/ token.exp < now THEN None
    ELSE token.sub

\* the mutation of get_current_user_id that reads the subject of the token
\* without verifying signature and expiry
get_current_user_id_unverified(authorization, now) ==
    IF authorization.kind = "absent" THEN None
    ELSE IF authorization.kind = "one_part" THEN None
    ELSE IF lower(authorization.scheme) # bearer THEN None
    ELSE IF authorization.token.sub = "" THEN None
    ELSE authorization.token.sub

\* the user id, or None where the dependency raises HTTPException(401)
get_current_user_id(authorization, now) ==
    IF authorization.kind = "absent" THEN None
    ELSE IF authorization.kind = "one_part" THEN None
    ELSE IF lower(authorization.scheme) # bearer THEN None
    ELSE IF validate_token(authorization.token, now) = "" THEN None
    ELSE validate_token(authorization.token, now)

(***************************************************************************)
(* WorldGeneratorService.generate_world_from_prompt                        *)
(***************************************************************************)
\* the mutation of resolve_world_type that ignores request.world_type
always_infer_world_type(request) == _infer_world_type(request.prompt)

\* request.world_type or self._infer_world_type(request.prompt)
resolve_world_type(request) ==
    IF request.world_type # None THEN request.world_type
    ELSE _infer_world_type(request.prompt)

\* instance.model_dump() / point.model_dump(): the values behind the references
model_dump(blueprint, h) ==
    [id |-> blueprint.id, prompt |-> blueprint.prompt,
     world_type |-> blueprint.world_type, title |-> blueprint.title,
     description |-> blueprint.description,
     environment_settings |-> h[blueprint.environment_settings],
     prefab_instances |-> h[blueprint.prefab_instances],
     spawn_points |-> h[blueprint.spawn_points]]

\* the resolved category and the generated title and description of a request
blueprint_text(request) ==
    LET world_type == resolve_world_type(request) IN
    [world_type |-> world_type,
     title |-> _generate_title(request.prompt, world_type),
     description |-> _generate_description(request.prompt, world_type)]


(***************************************************************************)
(* Inputs.                                                                 *)
(***************************************************************************)
TokenExpiry == 1
MaxTime == 2

Clock == 1..MaxTime

Ids == 1..NumIds

\* What the three uuid4() calls of one generation may return.  The code only
\* ever compares identifiers for equality (instance ids with each other, the
\* blueprint id with the stored primary keys), so values are named in order of
\* first use: a draw is a value already in use or the next unused one.
uuid4_draws(db) ==
    { u \in [1..3 -> Ids] :
        u[1] = 1 /\ u[2] <= 2 /\ u[3] <= Cardinality(DOMAIN db) + 1 }

token_alice == [sub |-> "alice", exp |-> TokenExpiry, key |-> secret_key]

token_forged == [sub |-> "alice", exp |-> TokenExpiry, key |-> "guessed-key"]

token_no_sub == [sub |-> None, exp |-> TokenExpiry, key |-> secret_key]

NoAuthorization == [kind |-> "absent"]

OnePartAuthorization == [kind |-> "one_part"]

Authorization(scheme, token) == [kind |-> "two_parts", scheme |-> scheme, token |-> token]

GoodAuthorization == Authorization(<<"B", "e", "a", "r", "e", "r">>, token_alice)

AuthorizationHeaders ==
    { NoAuthorization, OnePartAuthorization, GoodAuthorization,
      Authorization(<<"B", "E", "A", "R", "E", "R">>, token_alice),
      Authorization(<<"B", "a", "s", "i", "c">>, token_alice),
      Authorization(<<"B", "e", "a", "r", "e", "r">>, token_forged),
      Authorization(<<"B", "e", "a", "r", "e", "r">>, token_no_sub) }

PromptEmpty == << >>

PromptBlank == <<" ">>

PromptBlanks == <<" ", "\t", " ">>

PromptOneChar == <<"x">>

PromptMagicCity == <<"m", "a", "g", "i", "c", " ", "c", "i", "t", "y">>

PromptCapacity == <<"c", "a", "p", "a", "c", "i", "t", "y">>

PromptMagicalForest ==
    <<"A", " ", "m", "a", "g", "i", "c", "a", "l", " ", "f", "o", "r", "e", "s", "t", " ", "w",
      "i", "t", "h", " ", "a", "n", "c", "i", "e", "n", "t", " ", "t", "r", "e", "e", "s", " ",
      "a", "n", "d", " ", "g", "l", "o", "w", "i", "n", "g", " ", "m", "u", "s", "h", "r", "o",
      "o", "m", "s">>

PromptSpaceStation ==
    <<"A", " ", "f", "u", "t", "u", "r", "i", "s", "t", "i", "c", " ", "s", "p", "a", "c", "e",
      " ", "s", "t", "a", "t", "i", "o", "n", " ", "w", "i", "t", "h", " ", "a", "l", "i", "e",
      "n", " ", "t", "e", "c", "h", "n", "o", "l", "o", "g", "y">>

TitleAsDocumented ==
    <<"A", " ", "M", "a", "g", "i", "c", "a", "l", " ", "F", "o", "r", "e", "s", "t", " ", "W",
      "i", "t", "h", " ", "W", "o", "r", "l", "d">>

TitleFiveWords ==
    <<"A", " ", "M", "a", "g", "i", "c", "a", "l", " ", "F", "o", "r", "e", "s", "t", " ", "W",
      "i", "t", "h", " ", "A", "n", "c", "i", "e", "n", "t", " ", "W", "o", "r", "l", "d">>

MagicalForestUnit ==
    <<"A", " ", "m", "a", "g", "i", "c", "a", "l", " ", "f", "o", "r", "e", "s", "t", " ">>

\* "A magical forest " repeated and cut to n characters
RepeatedForest(n) ==
    [i \in 1..n |-> MagicalForestUnit[((i - 1) % Len(MagicalForestUnit)) + 1]]

Prompt1000 == RepeatedForest(PROMPT_MAX_LENGTH)

Prompt1001 == RepeatedForest(PROMPT_MAX_LENGTH + 1)

Prompt1000OneWord == [i \in 1..PROMPT_MAX_LENGTH |-> "x"]

BoundaryPrompts ==
    { PromptEmpty, PromptBlank, PromptBlanks, PromptOneChar, PromptCapacity,
      PromptMagicalForest, PromptSpaceStation, Prompt1000, Prompt1001, Prompt1000OneWord }

WorldTypeInputs == WorldType \cup {None, "steampunk"}

PromptRequest(prompt, world_type, user_id) ==
    [prompt |-> prompt, world_type |-> world_type, user_id |-> user_id]

HttpRequest(authorization, body) == [authorization |-> authorization, body |-> body]

HttpRequests ==
    { HttpRequest(GoodAuthorization, PromptRequest(PromptMagicCity, w, "alice")) :
        w \in WorldTypeInputs }
    \cup
    { HttpRequest(GoodAuthorization, PromptRequest(p, None, "alice")) :
        p \in BoundaryPrompts }
    \cup
    { HttpRequest(GoodAuthorization, PromptRequest(p, "steampunk", "alice")) :
        p \in {PromptEmpty, PromptOneChar} }
    \cup
    { HttpRequest(GoodAuthorization, PromptRequest(PromptOneChar, None, None)) }
    \cup
    { HttpRequest(a, PromptRequest(p, None, "alice")) :
        a \in AuthorizationHeaders, p \in {PromptEmpty, PromptMagicalForest} }

\* PromptRequest objects built by code that calls the service directly
ServiceRequests ==
    { PromptRequest(PromptMagicCity, w, "alice") : w \in {None, "sci_fi"} }
    \cup
    { PromptRequest(PromptOneChar, w, "alice") : w \in {None, "space"} }

RequestBodies == { r.body : r \in HttpRequests } \cup ServiceRequests

Vocabulary ==
    { <<"m", "a", "g", "i", "c">>, <<"M", "a", "g", "i", "c", "a", "l">>,
      <<"c", "i", "t", "y">>, <<"c", "a", "p", "a">>,
      <<"f", "u", "t", "u", "r", "e", "s">>, <<"s", "p", "a", "c", "e">>,
      <<"D", "R", "A", "G", "O", "N">>, <<"f", "o", "r", "e", "s", "t">>,
      <<"a", "n", "c", "i", "e", "n", "t">>, <<"s", "c", "i">>, <<"-", "f", "i">>,
      <<"s", "t", "r", "e", "e", "t", "s">>, <<"h", "e", "l", "l", "o">>,
      <<"o", "f">>, <<"\t">>, <<"f", "o", "r", "e", long_s, "t">> }

Separators == { << >>, <<" ">> }

RECURSIVE PromptsOfWords(_)
PromptsOfWords(n) ==
    IF n = 1 THEN Vocabulary
    ELSE { p \o s \o w : p \in PromptsOfWords(n - 1), s \in Separators, w \in Vocabulary }

ClassifierPrompts == UNION { PromptsOfWords(n) : n \in 1..MaxWords }

\* blueprint_text for every request body of the model, evaluated once
blueprint_text_of == [request \in RequestBodies |-> blueprint_text(request)]

\* uuids[1], uuids[2]: the instance ids; uuids[3]: the blueprint id.
\* raised names the exception that leaves the method, "" when it returns.
generate_world_from_prompt(request, h, db, uuids) ==
    LET world_type == blueprint_text_of[request].world_type
        title_ == blueprint_text_of[request].title
        description == blueprint_text_of[request].description
        settings == environment_settings_object(h, world_type)
        instances ==
            new_object(settings.heap,
                       _generate_prefab_instances(request.prompt, world_type, uuids))
        spawns == new_object(instances.heap, _generate_spawn_points(world_type))
        world_blueprint ==
            [id |-> uuids[3], prompt |-> request.prompt, world_type |-> world_type,
             title |-> title_, description |-> description,
             environment_settings |-> settings.ref,
             prefab_instances |-> instances.ref,
             spawn_points |-> spawns.ref]
    IN  IF ~WorldBlueprint_valid(request.prompt, world_type, title_, description,
                                 instances.heap[instances.ref])
        THEN [raised |-> "ValidationError", heap |-> h, db |-> db]
        ELSE IF world_blueprint.id \in DOMAIN db
        THEN [raised |-> "IntegrityError", heap |-> h, db |-> db]
        ELSE [raised |-> "", heap |-> spawns.heap,
              db |-> db @@ (world_blueprint.id :> model_dump(world_blueprint, spawns.heap)),
              world_blueprint |-> world_blueprint]

(***************************************************************************)
(* State and operations.                                                   *)
(***************************************************************************)
NotCalled == [called |-> FALSE]

NoExchange == [kind |-> "none"]

ErrorBody(detail) == [success |-> FALSE, detail |-> detail]

\* PromptResponse(success=True, world_blueprint=world_blueprint, ...), serialized
PromptResponse(world_blueprint, h) ==
    [success |-> TRUE, world_blueprint |-> model_dump(world_blueprint, h),
     message |-> "World blueprint generated successfully"]

HttpExchange(request, user, status, body) ==
    [kind |-> "http", request |-> request, user |-> user, status |-> status,
     body |-> body]

Init ==
    /\ arg = << >>
    /\ ret = NotCalled
    /\ world_blueprints = << >>
    /\ heap = << >>
    /\ last = NoExchange
    /\ held = << >>
    /\ calls = 0
    /\ user_sessions = << >>
    /\ experience_cards = << >>
    /\ telemetry_events = << >>
    /\ utcnow = 1
    /\ requests = 0
    /\ auth_requests = 0
    /\ threads = << >>

\* POST /prompt2world/: the dependency, the body validation and the handler
convert_prompt_to_world(request, now, uuids) ==
    LET user_id == get_current_user_id(request.authorization, now)
        result == generate_world_from_prompt(request.body, heap, world_blueprints, uuids)
    IN  /\ calls < MaxCalls
        /\ calls' = calls + 1
        /\ IF user_id = None
           THEN /\ last' = HttpExchange(request, user_id, 401, ErrorBody("Unauthorized"))
                /\ UNCHANGED world_blueprints
           ELSE IF ~PromptRequest_valid(request.body)
           THEN /\ last' = HttpExchange(request, user_id, 422,
                                        ErrorBody("RequestValidationError"))
                /\ UNCHANGED world_blueprints
           ELSE IF result.raised # ""
           THEN /\ last' = HttpExchange(request, user_id, 500, ErrorBody(result.raised))
                /\ UNCHANGED world_blueprints
           ELSE /\ last' = HttpExchange(request, user_id, 200,
                                        PromptResponse(result.world_blueprint, result.heap))
                /\ world_blueprints' = result.db
        \* the blueprint object is serialized into the response and dropped
        /\ UNCHANGED <<arg, ret, heap, held, api_vars, threads>>

Next ==
    \E request \in HttpRequests, now \in Clock, uuids \in uuid4_draws(world_blueprints) :
        convert_prompt_to_world(request, now, uuids)

Spec == Init /\ [][Next]_vars

(***************************************************************************)
(* The classifier on its own: _infer_world_type applied to a prompt.       *)
(***************************************************************************)
InitClassify ==
    /\ arg \in ClassifierPrompts
    /\ ret = NotCalled
    /\ world_blueprints = << >>
    /\ heap = << >>
    /\ last = NoExchange
    /\ held = << >>
    /\ calls = 0
    /\ user_sessions = << >>
    /\ experience_cards = << >>
    /\ telemetry_events = << >>
    /\ utcnow = 1
    /\ requests = 0
    /\ auth_requests = 0
    /\ threads = << >>

infer_call ==
    /\ ret = NotCalled
    /\ ret' = [called |-> TRUE, world_type |-> _infer_world_type(arg),
               conditions |-> infer_conditions(arg)]
    /\ UNCHANGED <<arg, world_blueprints, heap, last, held, calls, api_vars, threads>>

NextClassify == infer_call

SpecClassify == InitClassify /\ [][NextClassify]_vars

(***************************************************************************)
(* The title generator on its own: _generate_title applied to a prompt.    *)
(***************************************************************************)
MaxTitleWords == 6

TitleVocabulary ==
    { <<"a">>, <<"s", "c", "i", "-", "F", "I">>, <<"U", "p">> }

\* words.join(sep) for a separator of the test prompts
RECURSIVE JoinWith(_, _)
JoinWith(words, sep) ==
    IF Len(words) = 0 THEN << >>
    ELSE IF Len(words) = 1 THEN words[1]
    ELSE words[1] \o sep \o JoinWith(Tail(words), sep)

\* prompts of 0 to MaxTitleWords words, separated by one space or by a space
\* and a tab, with or without whitespace around them
TitlePrompts ==
    { lead \o JoinWith(words, sep) \o lead :
        words \in UNION { [1..n -> TitleVocabulary] : n \in 0..MaxTitleWords },
        sep \in { <<" ">>, <<" ", "\t">> },
        lead \in { << >>, <<" ">> } }

InitTitle ==
    /\ arg \in TitlePrompts
    /\ ret = NotCalled
    /\ world_blueprints = << >>
    /\ heap = << >>
    /\ last = NoExchange
    /\ held = << >>
    /\ calls = 0
    /\ user_sessions = << >>
    /\ experience_cards = << >>
    /\ telemetry_events = << >>
    /\ utcnow = 1
    /\ requests = 0
    /\ auth_requests = 0
    /\ threads = << >>

\* self._generate_title(prompt, world_type)
title_call ==
    /\ ret = NotCalled
    /\ ret' = [called |-> TRUE, title |-> _generate_title(arg, _infer_world_type(arg))]
    /\ UNCHANGED <<arg, world_blueprints, heap, last, held, calls, api_vars, threads>>

NextTitle == title_call

SpecTitle == InitTitle /\ [][NextTitle]_vars

(***************************************************************************)
(* The service called directly (as tests/test_services.py does): the       *)
(* caller gets the WorldBlueprint object, may keep it and may mutate its   *)
(* collections.                                                            *)
(***************************************************************************)
InitService == Init

CallReturned(request, seq, world_blueprint, h) ==
    [kind |-> "call", request |-> request, seq |-> seq, raised |-> "",
     world_blueprint |-> world_blueprint,
     returned |-> model_dump(world_blueprint, h), touched |-> {}]

CallRaised(request, seq, raised) ==
    [kind |-> "call", request |-> request, seq |-> seq, raised |-> raised]

\* WorldGeneratorService(db).generate_world_from_prompt(request)
generate_call(request, uuids) ==
    LET result == generate_world_from_prompt(request, heap, world_blueprints, uuids) IN
    /\ calls < MaxServiceCalls
    /\ PromptRequest_valid(request)
    /\ calls' = calls + 1
    /\ IF result.raised # ""
       THEN /\ last' = CallRaised(request, calls + 1, result.raised)
            /\ UNCHANGED <<heap, world_blueprints>>
       ELSE /\ last' = CallReturned(request, calls + 1, result.world_blueprint,
                                    result.heap)
            /\ heap' = result.heap
            /\ world_blueprints' = result.db
    /\ UNCHANGED <<arg, ret, held, api_vars, threads>>

\* the caller keeps the blueprint it was just handed
hold ==
    /\ last.kind = "call"
    /\ last.raised = ""
    /\ Len(held) < MaxHeld
    /\ held' = Append(held, last)
    /\ last' = NoExchange
    /\ UNCHANGED <<arg, ret, world_blueprints, heap, calls, api_vars, threads>>

CollectionFields == {"environment_settings", "prefab_instances", "spawn_points"}

\* blueprint.environment_settings["lighting"] = ..., or list.clear()
Mutated(field, value) ==
    IF field = "environment_settings"
    THEN [value EXCEPT !.lighting = "changed-by-caller"]
    ELSE << >>

\* the caller mutates a collection of a blueprint it holds
mutate(k, field) ==
    /\ field \notin held[k].touched
    /\ heap' = [heap EXCEPT ![held[k].world_blueprint[field]] = Mutated(field, @)]
    /\ held' = [held EXCEPT ![k].touched = @ \cup {field}]
    /\ UNCHANGED <<arg, ret, world_blueprints, last, calls, api_vars, threads>>

NextService ==
    \/ \E request \in ServiceRequests, uuids \in uuid4_draws(world_blueprints) :
           generate_call(request, uuids)
    \/ hold
    \/ \E k \in DOMAIN held, field \in CollectionFields : mutate(k, field)

SpecService == InitService /\ [][NextService]_vars

(***************************************************************************)
(* Concurrent calls of generate_world_from_prompt: every call runs in its  *)
(* own thread with its own service object and session; the statements of   *)
(* different calls interleave.  threads[t] is the frame of call t: where   *)
(* it stands, the request it was given, the identifiers uuid4() gave it    *)
(* and its local variables.  The objects live in the one heap of the       *)
(* process, the rows in the one world_blueprints table.                    *)
(***************************************************************************)
NumThreads == 2

Threads == 1..NumThreads

\* the requests of the concurrent callers: an inferred category and two given
ConcurrentRequests ==
    { PromptRequest(PromptMagicCity, None, "alice"),
      PromptRequest(PromptMagicCity, "sci_fi", "alice"),
      PromptRequest(PromptOneChar, "space", "alice") }

\* a variable not yet bound
Unbound == [unbound |-> TRUE]

NoLocals ==
    [request |-> Unbound, world_type |-> None, title |-> << >>, description |-> << >>,
     environment_settings |-> 0, prefab_instances |-> 0, spawn_points |-> 0,
     world_blueprint |-> Unbound]

NoFrame ==
    [pc |-> "idle", arg |-> Unbound, uuids |-> <<0, 0, 0>>, locals |-> NoLocals,
     raised |-> "", returned |-> Unbound]

\* the mutation of own that keeps every call's variables in one place, as
\* attributes of a service object all calls share would be
shared_by_all(t) == 1

\* whose frame holds the local variables of call t: its own
own(t) == t

locals(t) == threads[own(t)].locals

\* identifiers worth telling apart for a new blueprint: those stored or about
\* to be stored, and one more
blueprint_ids_in_use ==
    DOMAIN world_blueprints
        \cup { threads[t].uuids[3] : t \in { u \in Threads : threads[u].uuids[3] # 0 } }

InitConcurrent ==
    /\ arg = << >>
    /\ ret = NotCalled
    /\ world_blueprints = << >>
    /\ heap = << >>
    /\ last = NoExchange
    /\ held = << >>
    /\ calls = 0
    /\ user_sessions = << >>
    /\ experience_cards = << >>
    /\ telemetry_events = << >>
    /\ utcnow = 1
    /\ requests = 0
    /\ auth_requests = 0
    /\ threads = [t \in Threads |-> NoFrame]

concurrent_unchanged ==
    <<arg, ret, last, held, calls, api_vars>>

\* a caller enters generate_world_from_prompt(request):
\* world_type = request.world_type or self._infer_world_type(request.prompt)
begin_call(t, request) ==
    /\ threads[t].pc = "idle"
    /\ PromptRequest_valid(request)
    /\ threads' = [threads EXCEPT
                     ![t].pc = "_create_world_blueprint",
                     ![t].arg = request,
                     ![own(t)].locals.request = request,
                     ![own(t)].locals.world_type = resolve_world_type(request)]
    /\ UNCHANGED <<world_blueprints, heap, concurrent_unchanged>>

\* _create_world_blueprint up to its return statement: the title, the
\* description and the three collections, each a new object
step_create_world_blueprint(t, ids) ==
    LET l == locals(t)
        settings == environment_settings_object(heap, l.world_type)
        instances ==
            new_object(settings.heap,
                       _generate_prefab_instances(l.request.prompt, l.world_type, ids))
        spawns == new_object(instances.heap, _generate_spawn_points(l.world_type))
    IN  /\ threads[t].pc = "_create_world_blueprint"
        /\ heap' = spawns.heap
        /\ threads' = [threads EXCEPT
                         ![t].pc = "WorldBlueprint",
                         ![t].uuids[1] = ids[1], ![t].uuids[2] = ids[2],
                         ![own(t)].locals.title =
                             _generate_title(l.request.prompt, l.world_type),
                         ![own(t)].locals.description =
                             _generate_description(l.request.prompt, l.world_type),
                         ![own(t)].locals.environment_settings = settings.ref,
                         ![own(t)].locals.prefab_instances = instances.ref,
                         ![own(t)].locals.spawn_points = spawns.ref]
        /\ UNCHANGED <<world_blueprints, concurrent_unchanged>>

\* return WorldBlueprint(prompt=prompt, ...): the id is drawn and the model
\* validated; a validation error leaves generate_world_from_prompt
step_WorldBlueprint(t, id) ==
    LET l == locals(t)
        world_blueprint ==
            [id |-> id, prompt |-> l.request.prompt, world_type |-> l.world_type,
             title |-> l.title, description |-> l.description,
             environment_settings |-> l.environment_settings,
             prefab_instances |-> l.prefab_instances,
             spawn_points |-> l.spawn_points]
    IN  /\ threads[t].pc = "WorldBlueprint"
        /\ IF ~WorldBlueprint_valid(l.request.prompt, l.world_type, l.title,
                                    l.description, heap[l.prefab_instances])
           THEN threads' = [threads EXCEPT ![t].pc = "done", ![t].uuids[3] = id,
                                           ![t].raised = "ValidationError"]
           ELSE threads' = [threads EXCEPT ![t].pc = "commit", ![t].uuids[3] = id,
                                           ![own(t)].locals.world_blueprint =
                                               world_blueprint]
        /\ UNCHANGED <<world_blueprints, heap, concurrent_unchanged>>

\* world_model = WorldBlueprintModel(...); self.db.add(world_model); self.db.commit()
step_commit(t) ==
    LET world_blueprint == locals(t).world_blueprint IN
    /\ threads[t].pc = "commit"
    /\ IF world_blueprint.id \in DOMAIN world_blueprints
       THEN /\ threads' = [threads EXCEPT ![t].pc = "done",
                                          ![t].raised = "IntegrityError"]
            /\ UNCHANGED world_blueprints
       ELSE /\ threads' = [threads EXCEPT ![t].pc = "return"]
            /\ world_blueprints' =
                   world_blueprints
                       @@ (world_blueprint.id :> model_dump(world_blueprint, heap))
    /\ UNCHANGED <<heap, concurrent_unchanged>>

\* return world_blueprint: the caller reads the blueprint it was handed
step_return(t) ==
    /\ threads[t].pc = "return"
    /\ threads' = [threads EXCEPT
                     ![t].pc = "done",
                     ![t].returned = model_dump(locals(t).world_blueprint, heap)]
    /\ UNCHANGED <<world_blueprints, heap, concurrent_unchanged>>

NextConcurrent ==
    \/ \E t \in Threads, request \in ConcurrentRequests : begin_call(t, request)
    \/ \E t \in Threads, ids \in {<<1, 1>>, <<1, 2>>} :
           step_create_world_blueprint(t, ids)
    \/ \E t \in Threads, id \in 1..(Cardinality(blueprint_ids_in_use) + 1) :
           step_WorldBlueprint(t, id)
    \/ \E t \in Threads : step_commit(t)
    \/ \E t \in Threads : step_return(t)

SpecConcurrent == InitConcurrent /\ [][NextConcurrent]_vars

(***************************************************************************)
(* The statements of one generate_world_from_prompt call in order, with    *)
(* the wall clock.  utcnow counts the clock in ticks, TicksPerMs to the    *)
(* millisecond; between two statements the clock may advance, and          *)
(* time.time() may also go back when the system clock is set back.  ret is *)
(* the frame of the call: the statement it stands at, start_time, the      *)
(* statements executed so far and the processing time once stored.         *)
(***************************************************************************)
MaxClock == 4

TicksPerMs == 2

\* int(x): rounds toward zero
int_of_ticks(ticks) ==
    IF ticks >= 0 THEN ticks \div TicksPerMs ELSE 0 - ((0 - ticks) \div TicksPerMs)

InitTiming ==
    /\ arg \in ServiceRequests
    /\ ret = [pc |-> "start_time", start_time |-> 0, executed |-> << >>,
              processing_time_ms |-> 0]
    /\ world_blueprints = << >>
    /\ heap = << >>
    /\ last = NoExchange
    /\ held = << >>
    /\ calls = 0
    /\ user_sessions = << >>
    /\ experience_cards = << >>
    /\ telemetry_events = << >>
    /\ utcnow = 1
    /\ requests = 0
    /\ auth_requests = 0
    /\ threads = << >>

timing_unchanged ==
    <<arg, world_blueprints, heap, last, held, calls, user_sessions, experience_cards,
      telemetry_events, requests, auth_requests, threads>>

\* time passes between two statements
clock_advances ==
    /\ utcnow < MaxClock
    /\ utcnow' = utcnow + 1
    /\ UNCHANGED <<ret, timing_unchanged>>

\* the system clock is set back between two statements
clock_set_back ==
    /\ utcnow > 0
    /\ utcnow' = utcnow - 1
    /\ UNCHANGED <<ret, timing_unchanged>>

\* start_time = time.time()
stmt_start_time ==
    /\ ret.pc = "start_time"
    /\ ret' = [ret EXCEPT !.pc = "world_type", !.start_time = utcnow,
                          !.executed = Append(@, "time.time")]
    /\ UNCHANGED <<utcnow, timing_unchanged>>

\* world_type = request.world_type or self._infer_world_type(request.prompt)
stmt_world_type ==
    /\ ret.pc = "world_type"
    /\ ret' = [ret EXCEPT !.pc = "world_blueprint",
                          !.executed = Append(@, IF arg.world_type # None
                                                 THEN "request.world_type"
                                                 ELSE "_infer_world_type")]
    /\ UNCHANGED <<utcnow, timing_unchanged>>

\* world_blueprint = self._create_world_blueprint(request.prompt, world_type)
stmt_world_blueprint ==
    /\ ret.pc = "world_blueprint"
    /\ ret' = [ret EXCEPT !.pc = "commit",
                          !.executed = Append(@, "_create_world_blueprint")]
    /\ UNCHANGED <<utcnow, timing_unchanged>>

\* world_model = WorldBlueprintModel(...); self.db.add(world_model); self.db.commit()
stmt_commit ==
    /\ ret.pc = "commit"
    /\ ret' = [ret EXCEPT !.pc = "processing_time", !.executed = Append(@, "db.commit")]
    /\ UNCHANGED <<utcnow, timing_unchanged>>

\* processing_time = int((time.time() - start_time) * 1000)
\* world_blueprint.processing_time_ms = processing_time; return world_blueprint
stmt_processing_time ==
    /\ ret.pc = "processing_time"
    /\ ret' = [ret EXCEPT !.pc = "returned",
                          !.executed = Append(@, "time.time"),
                          !.processing_time_ms = int_of_ticks(utcnow - ret.start_time)]
    /\ UNCHANGED <<utcnow, timing_unchanged>>

NextTiming ==
    \/ clock_advances
    \/ clock_set_back
    \/ stmt_start_time
    \/ stmt_world_type
    \/ stmt_world_blueprint
    \/ stmt_commit
    \/ stmt_processing_time

SpecTiming == InitTiming /\ [][NextTiming]_vars

(***************************************************************************)
(* _generate_environment_settings called on its own, for any category:     *)
(* held is the list of the calls made, each with its argument and the dict *)
(* it returned.                                                            *)
(***************************************************************************)
InitSettings ==
    /\ arg = None
    /\ ret = NotCalled
    /\ world_blueprints = << >>
    /\ heap = << >>
    /\ last = NoExchange
    /\ held = << >>
    /\ calls = 0
    /\ user_sessions = << >>
    /\ experience_cards = << >>
    /\ telemetry_events = << >>
    /\ utcnow = 0
    /\ requests = 0
    /\ auth_requests = 0
    /\ threads = << >>

environment_settings_call(world_type) ==
    /\ calls < MaxServiceCalls
    /\ calls' = calls + 1
    /\ held' = Append(held, [world_type |-> world_type,
                             settings |-> _generate_environment_settings(world_type)])
    /\ UNCHANGED <<arg, ret, world_blueprints, heap, last, user_sessions, experience_cards,
                   telemetry_events, utcnow, requests, auth_requests, threads>>

NextSettings == \E world_type \in WorldType : environment_settings_call(world_type)

SpecSettings == InitSettings /\ [][NextSettings]_vars

(***************************************************************************)
(* The other endpoints: sessions (api/auth.py, SessionService), publishing *)
(* (api/publish.py, ExperienceService), telemetry and the prefab catalog.  *)
(***************************************************************************)
MaxRequests == 2
MaxAuthRequests == 3
MaxNow == 3

\* str.strip(): the text without its leading and trailing whitespace
strip(s) ==
    IF \A i \in 1..Len(s) : s[i] \in whitespace
    THEN << >>
    ELSE LET stop == CHOOSE j \in 1..Len(s) :
                        /\ s[j] \notin whitespace
                        /\ \A k \in (j + 1)..Len(s) : s[k] \in whitespace
         IN  SubSeq(s, SkipSpace(s, 1), stop)

\* JSON values of the login body's "user_id" member
JsonAbsent == [type |-> "absent"]

JsonString(chars) == [type |-> "str", value |-> chars]

\* a number, by its digits
JsonNumber(digits) == [type |-> "int", value |-> digits]

\* Python truthiness of request.get("user_id")
truthy(v) ==
    \/ v.type = "str" /\ Len(v.value) > 0
    \/ v.type = "int" /\ v.value # <<"0">>

\* user ids as text and as the value carried by tokens and rows
UserIdText ==
    [alice |-> <<"a", "l", "i", "c", "e">>, bob |-> <<"b", "o", "b">>]

user_id_of(chars) == CHOOSE u \in DOMAIN UserIdText : UserIdText[u] = chars

LoginBodies ==
    { [user_id |-> v] :
        v \in { JsonAbsent, JsonNumber(<<"7">>), JsonString(<< >>), JsonString(<<" ">>),
                JsonString(<<" ", "\t">>), JsonString(UserIdText.alice),
                JsonString(<<" ">> \o UserIdText.alice \o <<" ">>),
                JsonString(UserIdText.bob) } }

\* SessionService.create_access_token: the JWT for user_id made at time t
create_access_token(user_id, t) ==
    [sub |-> user_id, exp |-> t + TokenExpiry, key |-> secret_key]

\* SessionService.create_session: token and session_id are unique columns;
\* the session id is a fresh uuid4
SessionService_create_session(user_id, db, t) ==
    LET token == create_access_token(user_id, t)
        session_model ==
            [user_id |-> user_id, session_id |-> Len(db) + 1, token |-> token,
             expires_at |-> t + TokenExpiry, is_active |-> TRUE]
    IN  IF \E i \in DOMAIN db : db[i].token = token
        THEN [raised |-> "IntegrityError", db |-> db]
        ELSE [raised |-> "", db |-> Append(db, session_model),
              session |-> [user_id |-> session_model.user_id,
                           session_id |-> session_model.session_id,
                           token |-> session_model.token,
                           expires_at |-> session_model.expires_at]]

\* the mutation of get_session_by_token that takes the first live session,
\* whatever its token
first_live_session(token, db, t) ==
    LET found == { i \in DOMAIN db : db[i].is_active /\ db[i].expires_at > t }
    IN  IF found = {} THEN 0 ELSE CHOOSE i \in found : \A j \in found : i <= j

\* the mutation of get_session_by_token that filters on the token alone
session_by_token_alone(token, db, t) ==
    LET found == { i \in DOMAIN db : db[i].token = token }
    IN  IF found = {} THEN 0 ELSE CHOOSE i \in found : \A j \in found : i <= j

\* SessionService.get_session_by_token: the index of the first row with this
\* token that is active and not expired, 0 for None
get_session_by_token(token, db, t) ==
    LET found == { i \in DOMAIN db :
                     /\ db[i].token = token
                     /\ db[i].is_active
                     /\ db[i].expires_at > t }
    IN  IF found = {} THEN 0 ELSE CHOOSE i \in found : \A j \in found : i <= j

\* the mutation of invalidate_session that looks the row up by token alone
invalidate_by_token_alone(token, db, t) ==
    LET found == { i \in DOMAIN db : db[i].token = token } IN
    IF found # {}
    THEN [success |-> TRUE,
          db |-> [db EXCEPT ![CHOOSE i \in found : TRUE].is_active = FALSE]]
    ELSE [success |-> FALSE, db |-> db]

\* SessionService.invalidate_session
invalidate_session(token, db, t) ==
    LET session == get_session_by_token(token, db, t) IN
    IF session # 0
    THEN [success |-> TRUE, db |-> [db EXCEPT ![session].is_active = FALSE]]
    ELSE [success |-> FALSE, db |-> db]

\* authorization.startswith("Bearer ") on a header that is present
startswith_Bearer(authorization) ==
    /\ authorization.kind = "two_parts"
    /\ authorization.scheme = <<"B", "e", "a", "r", "e", "r">>

\* the tokens a client can hold: those the service issued, and one signed
\* with another key
ClientTokens == { user_sessions[i].token : i \in DOMAIN user_sessions } \cup {token_forged}

\* the token of the oldest session, if there is one
OldestToken == IF user_sessions = << >> THEN token_forged ELSE user_sessions[1].token

\* the headers a client can send: none, one word, "Bearer" and a token,
\* "bearer" or "Basic" and a token
ClientAuthorizations ==
    { NoAuthorization, OnePartAuthorization }
    \cup { Authorization(<<"B", "e", "a", "r", "e", "r">>, token) : token \in ClientTokens }
    \cup { Authorization(scheme, OldestToken) :
             scheme \in { <<"b", "e", "a", "r", "e", "r">>, <<"B", "a", "s", "i", "c">> } }

ApiExchange(kind, request, user, status, body) ==
    [kind |-> kind, request |-> request, user |-> user, status |-> status,
     body |-> body]

\* what every endpoint but POST /prompt2world/ leaves alone
generation_vars == <<arg, ret, world_blueprints, heap, held, calls, threads>>

\* what the /auth endpoints leave alone
protected_vars == <<generation_vars, experience_cards, telemetry_events, utcnow, requests>>

\* the clock advances
tick ==
    /\ utcnow < MaxNow
    /\ utcnow' = utcnow + 1
    /\ UNCHANGED <<generation_vars, last, user_sessions, experience_cards,
                   telemetry_events, requests, auth_requests>>

\* POST /auth/login.  The HTTPException(400) is raised inside the try block
\* whose `except Exception` turns every exception into HTTPException(500).
create_session(body) ==
    LET user_id == body.user_id
        created == SessionService_create_session(user_id_of(strip(user_id.value)),
                                                 user_sessions, utcnow)
    IN  /\ auth_requests < MaxAuthRequests
        /\ auth_requests' = auth_requests + 1
        /\ IF ~truthy(user_id)
           THEN /\ last' = ApiExchange("login", body, None, 500,
                                       ErrorBody("Failed to create session: 400: User ID is required"))
                /\ UNCHANGED user_sessions
           ELSE IF user_id.type # "str"
           THEN /\ last' = ApiExchange("login", body, None, 500,
                                       ErrorBody("Failed to create session: AttributeError"))
                /\ UNCHANGED user_sessions
           ELSE IF Len(strip(user_id.value)) = 0
           THEN /\ last' = ApiExchange("login", body, None, 500,
                                       ErrorBody("Failed to create session: 400: User ID is required"))
                /\ UNCHANGED user_sessions
           ELSE IF created.raised # ""
           THEN /\ last' = ApiExchange("login", body, None, 500,
                                       ErrorBody("Failed to create session: IntegrityError"))
                /\ UNCHANGED user_sessions
           ELSE /\ last' = ApiExchange("login", body, None, 200, created.session)
                /\ user_sessions' = created.db
        /\ UNCHANGED protected_vars

\* POST /auth/logout
logout_session(authorization) ==
    LET invalidated == invalidate_session(authorization.token, user_sessions, utcnow) IN
    /\ auth_requests < MaxAuthRequests
    /\ auth_requests' = auth_requests + 1
    /\ IF authorization.kind = "absent"
       THEN /\ last' = ApiExchange("logout", authorization, None, 500,
                                   ErrorBody("Failed to logout: AttributeError"))
            /\ UNCHANGED user_sessions
       ELSE IF ~startswith_Bearer(authorization)
       THEN /\ last' = ApiExchange("logout", authorization, None, 400,
                                   ErrorBody("Invalid authorization header format"))
            /\ UNCHANGED user_sessions
       ELSE IF ~invalidated.success
       THEN /\ last' = ApiExchange("logout", authorization, None, 401,
                                   ErrorBody("Invalid or expired token"))
            /\ UNCHANGED user_sessions
       ELSE /\ last' = ApiExchange("logout", authorization, None, 200,
                                   [success |-> TRUE,
                                    message |-> "Session invalidated successfully"])
            /\ user_sessions' = invalidated.db
    /\ UNCHANGED protected_vars

\* GET /auth/validate
validate_session(authorization) ==
    LET user_id == validate_token(authorization.token, utcnow)
        session == get_session_by_token(authorization.token, user_sessions, utcnow)
    IN  /\ auth_requests < MaxAuthRequests
        /\ auth_requests' = auth_requests + 1
        /\ last' =
             IF authorization.kind = "absent"
             THEN ApiExchange("validate", authorization, None, 500,
                              ErrorBody("Failed to validate session: AttributeError"))
             ELSE IF ~startswith_Bearer(authorization)
             THEN ApiExchange("validate", authorization, None, 401,
                              ErrorBody("Invalid authorization header format"))
             ELSE IF user_id = None \/ user_id = ""
             THEN ApiExchange("validate", authorization, None, 401,
                              ErrorBody("Invalid or expired token"))
             ELSE IF session = 0
             THEN ApiExchange("validate", authorization, user_id, 401,
                              ErrorBody("Session not found"))
             ELSE ApiExchange("validate", authorization, user_id, 200,
                              [valid |-> TRUE, user_id |-> user_id,
                               session_id |-> user_sessions[session].session_id,
                               expires_at |-> user_sessions[session].expires_at])
        /\ UNCHANGED <<protected_vars, user_sessions>>

(***************************************************************************)
(* Publishing: PublishRequest, ExperienceService, api/publish.py.          *)
(***************************************************************************)
ExperienceTitle == <<"T", "e", "s", "t">>

ExperienceDescription == <<"T", "e", "s", "t", " ", "d", "e", "s", "c">>

\* no blueprint has this id: uuid4 values are numbered from 1
non_existent_id == 0

PublishRequest(world_blueprint_id, title_, description, user_id) ==
    [world_blueprint_id |-> world_blueprint_id, title |-> title_,
     description |-> description, tags |-> << >>, is_public |-> TRUE,
     user_id |-> user_id]

\* PublishRequest: TRUE when the body validates
PublishRequest_valid(body) ==
    /\ Len(body.title) >= TITLE_MIN_LENGTH /\ Len(body.title) <= TITLE_MAX_LENGTH
    /\ Len(body.description) >= DESCRIPTION_MIN_LENGTH
    /\ Len(body.description) <= DESCRIPTION_MAX_LENGTH
    /\ body.user_id # None

PublishBodies ==
    { PublishRequest(id, ExperienceTitle, ExperienceDescription, "alice") :
        id \in {non_existent_id, 1} }
    \cup { PublishRequest(1, << >>, ExperienceDescription, "alice") }

\* str(e) of the ValueError publish_experience raises, without the id
not_found_message ==
    <<"W", "o", "r", "l", "d", " ", "b", "l", "u", "e", "p", "r", "i", "n", "t", " ",
      "n", "o", "t", " ", "f", "o", "u", "n", "d">>

not_found == <<"n", "o", "t", " ", "f", "o", "u", "n", "d">>

\* the mutation of ExperienceService_publish_experience that takes the card's
\* title from the blueprint
publish_with_blueprint_title(request, blueprints, db) ==
    LET experience_model ==
            [id |-> Len(db) + 1, world_blueprint_id |-> request.world_blueprint_id,
             title |-> blueprints[request.world_blueprint_id].title,
             description |-> request.description,
             thumbnail_url |-> None, tags |-> request.tags,
             author_id |-> request.user_id, is_public |-> request.is_public,
             play_count |-> 0, rating |-> None]
    IN  IF request.world_blueprint_id \notin DOMAIN blueprints
        THEN [raised |-> "ValueError", message |-> not_found_message, db |-> db]
        ELSE [raised |-> "", db |-> Append(db, experience_model),
              experience_card |-> experience_model]

\* the mutation of ExperienceService_publish_experience that does not look
\* the blueprint up
publish_without_lookup(request, blueprints, db) ==
    LET experience_model ==
            [id |-> Len(db) + 1, world_blueprint_id |-> request.world_blueprint_id,
             title |-> request.title, description |-> request.description,
             thumbnail_url |-> None, tags |-> request.tags,
             author_id |-> request.user_id, is_public |-> request.is_public,
             play_count |-> 0, rating |-> None]
    IN  [raised |-> "", db |-> Append(db, experience_model),
         experience_card |-> experience_model]

\* ExperienceService.publish_experience; the card's id is a fresh uuid4
ExperienceService_publish_experience(request, blueprints, db) ==
    LET experience_model ==
            [id |-> Len(db) + 1, world_blueprint_id |-> request.world_blueprint_id,
             title |-> request.title, description |-> request.description,
             thumbnail_url |-> None, tags |-> request.tags,
             author_id |-> request.user_id, is_public |-> request.is_public,
             play_count |-> 0, rating |-> None]
    IN  IF request.world_blueprint_id \notin DOMAIN blueprints
        THEN [raised |-> "ValueError", message |-> not_found_message, db |-> db]
        ELSE [raised |-> "", db |-> Append(db, experience_model),
              experience_card |-> experience_model]

\* POST /publish/
publish_experience(request) ==
    LET user_id == get_current_user_id(request.authorization, utcnow)
        result == ExperienceService_publish_experience(request.body, world_blueprints,
                                                       experience_cards)
    IN  /\ requests < MaxRequests
        /\ requests' = requests + 1
        /\ IF user_id = None
           THEN /\ last' = ApiExchange("publish", request, user_id, 401,
                                       ErrorBody("Unauthorized"))
                /\ UNCHANGED experience_cards
           ELSE IF ~PublishRequest_valid(request.body)
           THEN /\ last' = ApiExchange("publish", request, user_id, 422,
                                       ErrorBody("RequestValidationError"))
                /\ UNCHANGED experience_cards
           ELSE IF result.raised = "ValueError"
           THEN /\ last' = ApiExchange("publish", request, user_id,
                                       IF Contains(not_found, lower(result.message))
                                       THEN 404 ELSE 400,
                                       ErrorBody("World blueprint not found"))
                /\ UNCHANGED experience_cards
           ELSE /\ last' = ApiExchange("publish", request, user_id, 200,
                                       [success |-> TRUE,
                                        experience_card |-> result.experience_card,
                                        message |-> "Experience published successfully"])
                /\ experience_cards' = result.db
        /\ UNCHANGED <<generation_vars, auth_requests, user_sessions, telemetry_events, utcnow>>

\* rows of experience_cards selected by a predicate's index set, in order
RECURSIVE select_rows(_, _)
select_rows(rows, keep) ==
    IF rows = << >> THEN << >>
    ELSE (IF keep[1] THEN <<Head(rows)>> ELSE << >>)
             \o select_rows(Tail(rows), Tail(keep))

\* GET /publish/experiences
get_public_experiences(request) ==
    LET user_id == get_current_user_id(request.authorization, utcnow) IN
    /\ requests < MaxRequests
    /\ requests' = requests + 1
    /\ last' =
         IF user_id = None
         THEN ApiExchange("experiences", request, user_id, 401, ErrorBody("Unauthorized"))
         ELSE ApiExchange("experiences", request, user_id, 200,
                          select_rows(experience_cards,
                                      [i \in DOMAIN experience_cards |->
                                          experience_cards[i].is_public]))
    /\ UNCHANGED <<generation_vars, auth_requests, user_sessions, experience_cards, telemetry_events,
                   utcnow>>

\* GET /publish/experiences/{experience_id}
get_experience_by_id(request) ==
    LET user_id == get_current_user_id(request.authorization, utcnow) IN
    /\ requests < MaxRequests
    /\ requests' = requests + 1
    /\ last' =
         IF user_id = None
         THEN ApiExchange("experience", request, user_id, 401, ErrorBody("Unauthorized"))
         ELSE IF request.experience_id \notin DOMAIN experience_cards
         THEN ApiExchange("experience", request, user_id, 404,
                          ErrorBody("Experience not found"))
         ELSE ApiExchange("experience", request, user_id, 200,
                          [success |-> TRUE,
                           experience_card |-> experience_cards[request.experience_id],
                           message |-> "Experience retrieved successfully"])
    /\ UNCHANGED <<generation_vars, auth_requests, user_sessions, experience_cards, telemetry_events,
                   utcnow>>

(***************************************************************************)
(* Telemetry: TelemetryEvent, TelemetryService, api/telemetry.py.          *)
(***************************************************************************)
\* timestamps datetime.fromisoformat accepts, among those clients send
iso_timestamps == {"2024-01-01T00:00:00"}

\* a str value and a datetime value, each by its ISO text
Str(text) == [type |-> "str", value |-> text]

Datetime(text) == [type |-> "datetime", value |-> text]

TelemetryEvent(event_type, user_id, timestamp) ==
    [event_type |-> event_type, user_id |-> user_id, session_id |-> "session",
     world_id |-> None, experience_id |-> None, timestamp |-> Str(timestamp)]

\* TelemetryEvent: TRUE when the values validate; timestamp is declared str,
\* and a datetime is not a valid string
TelemetryEvent_valid(event) ==
    /\ event.event_type # None
    /\ event.user_id # None
    /\ event.session_id # None
    /\ event.timestamp.type = "str"

GoodEvent == TelemetryEvent("world_loaded", "alice", "2024-01-01T00:00:00")

TelemetryEvents ==
    { GoodEvent,
      TelemetryEvent("world_loaded", "bob", "2024-01-01T00:00:00"),
      TelemetryEvent(None, "alice", "2024-01-01T00:00:00"),
      TelemetryEvent("world_loaded", "alice", "yesterday") }

\* TelemetryService.log_event: fromisoformat raises ValueError; the row's
\* timestamp column holds the datetime
log_event(event, db) ==
    IF event.timestamp.value \notin iso_timestamps
    THEN [raised |-> "ValueError", db |-> db]
    ELSE [raised |-> "",
          db |-> Append(db, [event EXCEPT !.timestamp = Datetime(@.value)])]

\* POST /telemetry/
log_telemetry_event(request) ==
    LET user_id == get_current_user_id(request.authorization, utcnow)
        result == log_event(request.body, telemetry_events)
    IN  /\ requests < MaxRequests
        /\ requests' = requests + 1
        /\ IF user_id = None
           THEN /\ last' = ApiExchange("telemetry", request, user_id, 401,
                                       ErrorBody("Unauthorized"))
                /\ UNCHANGED telemetry_events
           ELSE IF ~TelemetryEvent_valid(request.body)
           THEN /\ last' = ApiExchange("telemetry", request, user_id, 422,
                                       ErrorBody("RequestValidationError"))
                /\ UNCHANGED telemetry_events
           ELSE IF result.raised # ""
           THEN /\ last' = ApiExchange("telemetry", request, user_id, 500,
                                       ErrorBody("Internal server error"))
                /\ UNCHANGED telemetry_events
           ELSE /\ last' = ApiExchange("telemetry", request, user_id, 200,
                                       [success |-> TRUE,
                                        message |-> "Telemetry event logged successfully"])
                /\ telemetry_events' = result.db
        /\ UNCHANGED <<generation_vars, auth_requests, user_sessions, experience_cards, utcnow>>

\* `for event in events: telemetry_service.log_event(event)`: every event is
\* committed on its own, so the events before a failing one stay stored
RECURSIVE log_events(_, _)
log_events(events, db) ==
    IF events = << >> THEN [raised |-> "", db |-> db]
    ELSE IF log_event(Head(events), db).raised # "" THEN log_event(Head(events), db)
    ELSE log_events(Tail(events), log_event(Head(events), db).db)

TelemetryBatches ==
    { << >>, <<GoodEvent, TelemetryEvent("world_loaded", "alice", "yesterday")>>,
      <<TelemetryEvent(None, "alice", "2024-01-01T00:00:00")>> }

\* POST /telemetry/batch
log_telemetry_events_batch(request) ==
    LET user_id == get_current_user_id(request.authorization, utcnow)
        result == log_events(request.body, telemetry_events)
    IN  /\ requests < MaxRequests
        /\ requests' = requests + 1
        /\ IF user_id = None
           THEN /\ last' = ApiExchange("telemetry_batch", request, user_id, 401,
                                       ErrorBody("Unauthorized"))
                /\ UNCHANGED telemetry_events
           ELSE IF \E i \in DOMAIN request.body : ~TelemetryEvent_valid(request.body[i])
           THEN /\ last' = ApiExchange("telemetry_batch", request, user_id, 422,
                                       ErrorBody("RequestValidationError"))
                /\ UNCHANGED telemetry_events
           ELSE IF result.raised # ""
           THEN /\ last' = ApiExchange("telemetry_batch", request, user_id, 500,
                                       ErrorBody("Internal server error"))
                /\ telemetry_events' = result.db
           ELSE /\ last' = ApiExchange("telemetry_batch", request, user_id, 200,
                                       [success |-> TRUE,
                                        message |-> "Successfully logged telemetry events"])
                /\ telemetry_events' = result.db
        /\ UNCHANGED <<generation_vars, auth_requests, user_sessions, experience_cards, utcnow>>

\* the mutation of is_own_events that lets every user read every user's events
is_any_events(user_id, current_user_id) == TRUE

\* the negation of `user_id != current_user_id`
is_own_events(user_id, current_user_id) == user_id = current_user_id

\* TelemetryService.get_user_events: the rows of the user, each rebuilt as
\* TelemetryEvent(..., timestamp=event.timestamp) from the row's datetime
TelemetryService_get_user_events(user_id, db) ==
    LET event_models ==
            select_rows(db, [i \in DOMAIN db |-> db[i].user_id = user_id])
    IN  IF \E i \in DOMAIN event_models : ~TelemetryEvent_valid(event_models[i])
        THEN [raised |-> "ValidationError", events |-> << >>]
        ELSE [raised |-> "", events |-> event_models]

\* GET /telemetry/events/user/{user_id}
get_user_events(request) ==
    LET current_user_id == get_current_user_id(request.authorization, utcnow)
        result == TelemetryService_get_user_events(request.user_id, telemetry_events)
    IN
    /\ requests < MaxRequests
    /\ requests' = requests + 1
    /\ last' =
         IF current_user_id = None
         THEN ApiExchange("user_events", request, current_user_id, 401,
                          ErrorBody("Unauthorized"))
         ELSE IF ~is_own_events(request.user_id, current_user_id)
         THEN ApiExchange("user_events", request, current_user_id, 403,
                          ErrorBody("Access denied: Cannot access other users' events"))
         ELSE IF result.raised # ""
         THEN ApiExchange("user_events", request, current_user_id, 500,
                          ErrorBody("Internal server error"))
         ELSE ApiExchange("user_events", request, current_user_id, 200, result.events)
    /\ UNCHANGED <<generation_vars, auth_requests, user_sessions, experience_cards, telemetry_events,
                   utcnow>>

(***************************************************************************)
(* The prefab catalog: PrefabService, api/prefab_catalog.py.  The table is *)
(* filled by seed_default_prefabs and no endpoint writes to it.            *)
(***************************************************************************)
prefab_catalog ==
    [fantasy_castle_01 |->
        <<"M", "e", "d", "i", "e", "v", "a", "l", " ", "C", "a", "s", "t", "l", "e">>,
     space_station_01 |->
        <<"S", "p", "a", "c", "e", " ", "S", "t", "a", "t", "i", "o", "n", " ", "A", "l",
          "p", "h", "a">>]

\* GET /prefab_catalog/
get_prefab_catalog(request) ==
    LET user_id == get_current_user_id(request.authorization, utcnow) IN
    /\ requests < MaxRequests
    /\ requests' = requests + 1
    /\ last' =
         IF user_id = None
         THEN ApiExchange("prefab_catalog", request, user_id, 401, ErrorBody("Unauthorized"))
         ELSE ApiExchange("prefab_catalog", request, user_id, 200,
                          [success |-> TRUE, prefabs |-> DOMAIN prefab_catalog,
                           total_count |-> Cardinality(DOMAIN prefab_catalog)])
    /\ UNCHANGED <<generation_vars, auth_requests, user_sessions, experience_cards, telemetry_events,
                   utcnow>>

\* GET /prefab_catalog/{prefab_id}
get_prefab_by_id(request) ==
    LET user_id == get_current_user_id(request.authorization, utcnow) IN
    /\ requests < MaxRequests
    /\ requests' = requests + 1
    /\ last' =
         IF user_id = None
         THEN ApiExchange("prefab", request, user_id, 401, ErrorBody("Unauthorized"))
         ELSE IF request.prefab_id \notin DOMAIN prefab_catalog
         THEN ApiExchange("prefab", request, user_id, 404, ErrorBody("Prefab not found"))
         ELSE ApiExchange("prefab", request, user_id, 200,
                          [success |-> TRUE, prefabs |-> {request.prefab_id},
                           total_count |-> 1])
    /\ UNCHANGED <<generation_vars, auth_requests, user_sessions, experience_cards, telemetry_events,
                   utcnow>>

\* GET /prefab_catalog/search/: name ILIKE %q%
search_prefabs(request) ==
    LET user_id == get_current_user_id(request.authorization, utcnow)
        prefabs == { id \in DOMAIN prefab_catalog :
                       Contains(lower(request.q), lower(prefab_catalog[id])) }
    IN  /\ requests < MaxRequests
        /\ requests' = requests + 1
        /\ last' =
             IF user_id = None
             THEN ApiExchange("prefab_search", request, user_id, 401,
                              ErrorBody("Unauthorized"))
             ELSE IF Len(request.q) < 1
             THEN ApiExchange("prefab_search", request, user_id, 422,
                              ErrorBody("RequestValidationError"))
             ELSE ApiExchange("prefab_search", request, user_id, 200,
                              [success |-> TRUE, prefabs |-> prefabs,
                               total_count |-> Cardinality(prefabs)])
        /\ UNCHANGED <<generation_vars, auth_requests, user_sessions, experience_cards, telemetry_events,
                       utcnow>>

(***************************************************************************)
(* All endpoints together, with the clock.                                 *)
(***************************************************************************)
ApiPromptBodies ==
    { PromptRequest(PromptMagicCity, None, "alice"), PromptRequest(PromptEmpty, None, "alice") }

\* the sessions table after alice has logged in at time 1
logged_in == SessionService_create_session("alice", << >>, 1).db

InitApi ==
    /\ arg = << >>
    /\ ret = NotCalled
    /\ world_blueprints = << >>
    /\ heap = << >>
    /\ last = NoExchange
    /\ held = << >>
    /\ calls = 0
    /\ user_sessions = logged_in
    /\ experience_cards = << >>
    /\ telemetry_events = << >>
    /\ utcnow = 1
    /\ requests = 0
    /\ auth_requests = 0
    /\ threads = << >>

NextApi ==
    \/ tick
    \/ \E authorization \in ClientAuthorizations :
          \/ \E body \in ApiPromptBodies, uuids \in uuid4_draws(world_blueprints) :
                convert_prompt_to_world(HttpRequest(authorization, body), utcnow, uuids)
          \/ \E body \in PublishBodies :
                publish_experience(HttpRequest(authorization, body))
          \/ get_public_experiences([authorization |-> authorization])
          \/ \E experience_id \in 1..2 :
                get_experience_by_id([authorization |-> authorization,
                                      experience_id |-> experience_id])
          \/ \E body \in TelemetryEvents :
                log_telemetry_event(HttpRequest(authorization, body))
          \/ \E body \in TelemetryBatches :
                log_telemetry_events_batch(HttpRequest(authorization, body))
          \/ \E user_id \in DOMAIN UserIdText :
                get_user_events([authorization |-> authorization, user_id |-> user_id])
          \/ get_prefab_catalog([authorization |-> authorization])
          \/ \E prefab_id \in {"fantasy_castle_01", "unknown_prefab"} :
                get_prefab_by_id([authorization |-> authorization,
                                  prefab_id |-> prefab_id])
          \/ \E q \in { << >>, <<"C", "A", "S", "T", "L", "E">> } :
                search_prefabs([authorization |-> authorization, q |-> q])

SpecApi == InitApi /\ [][NextApi]_vars

(***************************************************************************)
(* SessionService called directly, with the clock: create_session,         *)
(* invalidate_session and cleanup_expired_sessions.  ret is the last call   *)
(* and what it returned or raised.                                         *)
(***************************************************************************)
\* the mutation of cleanup_expired_sessions that deactivates every session
cleanup_all_sessions(db, t) ==
    [count |-> Len(db), db |-> [i \in DOMAIN db |-> [db[i] EXCEPT !.is_active = FALSE]]]

\* SessionService.cleanup_expired_sessions: the rows with expires_at < utcnow()
cleanup_expired_sessions(db, t) ==
    LET expired_sessions == { i \in DOMAIN db : db[i].expires_at < t } IN
    [count |-> Cardinality(expired_sessions),
     db |-> [i \in DOMAIN db |->
               IF i \in expired_sessions THEN [db[i] EXCEPT !.is_active = FALSE]
               ELSE db[i]]]

session_vars ==
    <<arg, world_blueprints, heap, last, held, experience_cards, telemetry_events,
      utcnow, requests, auth_requests, threads>>

call_create_session(user_id) ==
    LET created == SessionService_create_session(user_id, user_sessions, utcnow) IN
    /\ calls < MaxServiceCalls
    /\ calls' = calls + 1
    /\ user_sessions' = created.db
    /\ ret' = [called |-> "create_session", user_id |-> user_id,
               raised |-> created.raised,
               returned |-> IF created.raised = "" THEN created.session.session_id ELSE 0]
    /\ UNCHANGED session_vars

call_invalidate_session(token) ==
    LET invalidated == invalidate_session(token, user_sessions, utcnow) IN
    /\ calls < MaxServiceCalls
    /\ calls' = calls + 1
    /\ user_sessions' = invalidated.db
    /\ ret' = [called |-> "invalidate_session", user_id |-> token.sub, raised |-> "",
               returned |-> IF invalidated.success THEN 1 ELSE 0]
    /\ UNCHANGED session_vars

call_cleanup_expired_sessions ==
    LET cleaned == cleanup_expired_sessions(user_sessions, utcnow) IN
    /\ calls < MaxServiceCalls
    /\ calls' = calls + 1
    /\ user_sessions' = cleaned.db
    /\ ret' = [called |-> "cleanup_expired_sessions", user_id |-> "", raised |-> "",
               returned |-> cleaned.count]
    /\ UNCHANGED session_vars

NextSessions ==
    \/ tick
    \/ \E user_id \in DOMAIN UserIdText : call_create_session(user_id)
    \/ \E token \in ClientTokens : call_invalidate_session(token)
    \/ call_cleanup_expired_sessions

SpecSessions == Init /\ [][NextSessions]_vars

(***************************************************************************)
(* ExperienceService.increment_play_count called by concurrent callers,    *)
(* each with its own database session.  A call is two steps: the query     *)
(* that loads the row (with its play_count) into the caller's session, and *)
(* `play_count += 1` on the loaded object with the commit that writes the  *)
(* new value.  arg is the play_count the experience starts with;           *)
(* threads[t] is caller t: the row it has loaded and how many of its calls *)
(* have returned True and False.                                           *)
(***************************************************************************)
published_experience(play_count) ==
    [id |-> 1, world_blueprint_id |-> 1, title |-> <<"t">>, description |-> <<"d">>,
     thumbnail_url |-> None, tags |-> << >>, author_id |-> "alice", is_public |-> TRUE,
     play_count |-> play_count, rating |-> None]

InitPlayCount ==
    /\ arg \in 0..1
    /\ ret = NotCalled
    /\ world_blueprints = << >>
    /\ heap = << >>
    /\ last = NoExchange
    /\ held = << >>
    /\ calls = 0
    /\ user_sessions = << >>
    /\ experience_cards = <<published_experience(arg)>>
    /\ telemetry_events = << >>
    /\ utcnow = 1
    /\ requests = 0
    /\ auth_requests = 0
    /\ threads = [t \in 1..NumThreads |->
                    [pc |-> "idle", experience_model |-> 0, play_count |-> 0,
                     returned_true |-> 0, returned_false |-> 0]]

play_count_vars ==
    <<arg, ret, world_blueprints, heap, last, held, user_sessions, telemetry_events,
      utcnow, requests, auth_requests>>

\* experience_model = self.db.query(ExperienceCardModel).filter(id == experience_id)
\* .first(); if not experience_model: return False
increment_play_count_query(t, experience_id) ==
    LET found == { i \in DOMAIN experience_cards : experience_cards[i].id = experience_id }
        experience_model == CHOOSE i \in found : TRUE
    IN  /\ threads[t].pc = "idle"
        /\ calls < MaxServiceCalls
        /\ calls' = calls + 1
        /\ threads' =
             IF found = {}
             THEN [threads EXCEPT ![t].returned_false = @ + 1]
             ELSE [threads EXCEPT ![t].pc = "loaded",
                                  ![t].experience_model = experience_model,
                                  ![t].play_count =
                                      experience_cards[experience_model].play_count]
        /\ UNCHANGED <<experience_cards, play_count_vars>>

\* experience_model.play_count += 1; self.db.commit(); return True
increment_play_count_commit(t) ==
    /\ threads[t].pc = "loaded"
    /\ experience_cards' =
         [experience_cards EXCEPT ![threads[t].experience_model].play_count =
                                      threads[t].play_count + 1]
    /\ threads' = [threads EXCEPT ![t].pc = "idle", ![t].returned_true = @ + 1]
    /\ UNCHANGED <<calls, play_count_vars>>

NextPlayCount ==
    \E t \in 1..NumThreads :
        \/ \E experience_id \in 1..2 : increment_play_count_query(t, experience_id)
        \/ increment_play_count_commit(t)

SpecPlayCount == InitPlayCount /\ [][NextPlayCount]_vars

(***************************************************************************)
(* The /auth endpoints with the clock, and one protected endpoint.         *)
(***************************************************************************)
NextAuth ==
    \/ tick
    \/ \E body \in LoginBodies : create_session(body)
    \/ \E authorization \in ClientAuthorizations :
          \/ logout_session(authorization)
          \/ validate_session(authorization)
          \/ get_prefab_catalog([authorization |-> authorization])

SpecAuth == Init /\ [][NextAuth]_vars

(***************************************************************************)
(* Properties.                                                             *)
(***************************************************************************)
RuleCategory == <<"fantasy", "sci_fi", "urban", "nature", "historical">>

RuleKeywords ==
    <<fantasy_keywords, sci_fi_keywords, urban_keywords, nature_keywords,
      historical_keywords>>

\* keyword is a run of consecutive characters of text
OccursIn(keyword, text) ==
    \E i \in 1..Len(text) :
        /\ i + Len(keyword) - 1 <= Len(text)
        /\ SubSeq(text, i, i + Len(keyword) - 1) = keyword

RuleHasKeywordIn(r, text) ==
    \E k \in DOMAIN RuleKeywords[r] : OccursIn(RuleKeywords[r][k], text)

\* the whitespace-separated words of text
WordSet(text) == Range(split_first(text, Len(text)))

RuleHasKeywordAmongWords(r, text) ==
    \E k \in DOMAIN RuleKeywords[r] : RuleKeywords[r][k] \in WordSet(text)

DistinctIds(instances) ==
    \A i, j \in DOMAIN instances : i # j => instances[i].id # instances[j].id

Answered(status) == last.kind = "http" /\ last.status = status

\* C1: every blueprint that is returned or stored has pairwise distinct
\* prefab-instance ids, for every prompt and category.
C1_UniqueInstanceIds ==
    /\ Answered(200) => DistinctIds(last.body.world_blueprint.prefab_instances)
    /\ \A id \in DOMAIN world_blueprints :
           DistinctIds(world_blueprints[id].prefab_instances)

C1_Witness ==
    /\ Answered(200)
    /\ Len(last.body.world_blueprint.prefab_instances) = 2

\* C2: _infer_world_type always returns a category, and it is the category of
\* the first rule, in the order fantasy, sci-fi, urban, nature, historical, one
\* of whose keywords is present in the lower-cased prompt, even when a later
\* rule has one too; realistic when no rule has one.
C2_FirstMatchingRule ==
    ret.called =>
        LET hits == {r \in DOMAIN RuleCategory : RuleHasKeywordIn(r, lower(arg))} IN
        /\ ret.world_type \in WorldType
        /\ ret.world_type =
              IF hits = {} THEN "realistic"
              ELSE RuleCategory[CHOOSE r \in hits : \A q \in hits : r <= q]

C2_Witness ==
    /\ ret.called
    /\ arg = PromptMagicCity
    /\ RuleHasKeywordIn(3, lower(arg))
    /\ ret.world_type = "fantasy"

\* C3 as stated: a rule's condition is true exactly when one of its keywords is
\* one of the whitespace-separated words of the lower-cased prompt.
C3_WordSetMatch ==
    ret.called =>
        \A r \in DOMAIN RuleCategory :
            ret.conditions[r] <=> RuleHasKeywordAmongWords(r, lower(arg))

\* C3 amended: a rule's condition is true exactly when one of its keywords
\* occurs as a contiguous substring of the lower-cased prompt, so a keyword
\* inside a longer word does make its rule match.
C3_SubstringMatch ==
    ret.called =>
        \A r \in DOMAIN RuleCategory :
            ret.conditions[r] <=> RuleHasKeywordIn(r, lower(arg))

C3_Witness ==
    /\ ret.called
    /\ arg = PromptCapacity
    /\ ret.conditions[3]
    /\ ~RuleHasKeywordAmongWords(3, lower(arg))
    /\ ret.world_type = "urban"

\* C4: a returned blueprint carries the request's prompt, and its world_type is
\* the request's world_type when one is supplied, whatever the prompt's
\* keywords, and _infer_world_type(prompt) when none is.
C4_CategoryResolution ==
    Answered(200) =>
        LET body == last.request.body
            blueprint == last.body.world_blueprint
        IN  /\ blueprint.prompt = body.prompt
            /\ body.world_type # None => blueprint.world_type = body.world_type
            /\ body.world_type = None =>
                   blueprint.world_type = _infer_world_type(body.prompt)

C4_Witness ==
    /\ Answered(200)
    /\ last.request.body.prompt = PromptMagicCity
    /\ last.request.body.world_type = "space"
    /\ last.body.world_blueprint.world_type = "space"

\* the blueprints handed to the caller by calls that returned
Handed ==
    Range(held) \cup (IF last.kind = "call" /\ last.raised = "" THEN {last} ELSE {})

\* a returned blueprint without its generated identifiers
WithoutIds(returned) ==
    [returned EXCEPT
        !.id = 0,
        !.prefab_instances = [i \in DOMAIN @ |-> [@[i] EXCEPT !.id = 0]]]

\* what the blueprint's collections hold now
Live(exchange) ==
    [field \in CollectionFields |-> heap[exchange.world_blueprint[field]]]

\* the prefab ids and positions of a list of instances
Placement(instances) ==
    [i \in DOMAIN instances |->
        [prefab_id |-> instances[i].prefab_id, position |-> instances[i].position]]

\* C6: two calls of generate_world_from_prompt with the same prompt and
\* world_type, whatever happened between them, return blueprints that agree on
\* everything but the generated identifiers: environment settings, description,
\* title, instance prefab ids and positions, spawn points.
C6_SameRequestSameBlueprint ==
    \A a, b \in Handed :
        (a.request.prompt = b.request.prompt
            /\ a.request.world_type = b.request.world_type)
        => WithoutIds(a.returned) = WithoutIds(b.returned)

C6_Witness ==
    /\ Len(held) > 0
    /\ last.kind = "call"
    /\ last.raised = ""
    /\ last.request = held[1].request
    /\ last.seq > held[1].seq + 1
    /\ held[1].touched = CollectionFields
    /\ last.returned.id # held[1].returned.id

\* C7: mutating the environment settings, the instance list or the spawn
\* points of one returned blueprint changes no collection of any other
\* returned blueprint, and a blueprint returned afterwards still carries the
\* settings, instances and spawn points of its category.
C7_NoSharedCollections ==
    \A a \in Handed :
        /\ \A field \in CollectionFields \ a.touched :
               Live(a)[field] = a.returned[field]
        /\ a.returned.environment_settings =
               _generate_environment_settings(a.returned.world_type)
        /\ a.returned.spawn_points = _generate_spawn_points(a.returned.world_type)
        /\ Placement(a.returned.prefab_instances) =
               Placement(_generate_prefab_instances(a.request.prompt,
                                                    a.returned.world_type, <<0, 0>>))

C7_Witness ==
    /\ Len(held) > 0
    /\ held[1].touched = CollectionFields
    /\ last.kind = "call"
    /\ last.raised = ""
    /\ last.seq > held[1].seq
    /\ last.returned.world_type = held[1].returned.world_type
    /\ Live(last) # Live(held[1])

\* C5: a blueprint has 2 instances for fantasy and for sci-fi and 1 for every
\* other category, and its spawn points are, in order, (0,1,0),(10,1,5) for
\* fantasy, (0,1,0),(5,1,0) for sci-fi and (0,1,0),(5,1,5) otherwise.
C5_TemplateCounts ==
    Answered(200) =>
        LET blueprint == last.body.world_blueprint IN
        /\ Len(blueprint.prefab_instances) =
               IF blueprint.world_type \in {"fantasy", "sci_fi"} THEN 2 ELSE 1
        /\ blueprint.spawn_points =
               IF blueprint.world_type = "fantasy"
               THEN <<[x |-> 0, y |-> 1, z |-> 0], [x |-> 10, y |-> 1, z |-> 5]>>
               ELSE IF blueprint.world_type = "sci_fi"
               THEN <<[x |-> 0, y |-> 1, z |-> 0], [x |-> 5, y |-> 1, z |-> 0]>>
               ELSE <<[x |-> 0, y |-> 1, z |-> 0], [x |-> 5, y |-> 1, z |-> 5]>>

C5_Witness ==
    /\ Answered(200)
    /\ last.body.world_blueprint.world_type = "sci_fi"
    /\ Len(last.body.world_blueprint.prefab_instances) = 2

\* the exchange of a step of the endpoint that passed the authentication
\* dependency
Authenticated(exchange) == exchange.kind = "http" /\ exchange.user # None

\* a body the claim calls invalid: prompt empty or longer than 1000 characters,
\* or a category that is supplied and is not one of the recognized values
OutsideContract(body) ==
    \/ Len(body.prompt) = 0
    \/ Len(body.prompt) > 1000
    \/ (body.world_type # None /\ body.world_type \notin WorldType)

WhitespaceOnly(s) == Len(s) > 0 /\ \A i \in 1..Len(s) : s[i] \in whitespace

\* C9 as stated: an authenticated request with a whitespace-only prompt is
\* answered 422, and no blueprint with a whitespace-only prompt is stored.
C9_WhitespaceOnlyRejected ==
    /\ (Authenticated(last) /\ WhitespaceOnly(last.request.body.prompt)) =>
           last.status = 422
    /\ \A id \in DOMAIN world_blueprints : ~WhitespaceOnly(world_blueprints[id].prompt)

\* the request of the end-to-end example: the prompt with no explicit category
EndToEndExample ==
    /\ Answered(200)
    /\ last.request.body.prompt = PromptMagicalForest
    /\ last.request.body.world_type = None

\* category, instances and spawn points of the end-to-end example
EndToEndPlacement(blueprint) ==
    /\ blueprint.world_type = "fantasy"
    /\ [i \in DOMAIN blueprint.prefab_instances |->
           <<blueprint.prefab_instances[i].prefab_id,
             blueprint.prefab_instances[i].position>>]
         = << <<"fantasy_castle_01", [x |-> 0, y |-> 0, z |-> 0]>>,
              <<"magic_tree_01", [x |-> 10, y |-> 0, z |-> 5]>> >>
    /\ blueprint.spawn_points =
           <<[x |-> 0, y |-> 1, z |-> 0], [x |-> 10, y |-> 1, z |-> 5]>>

\* C10 as stated: the example's blueprint is fantasy, has the title
\* 'A Magical Forest With World', the castle at (0,0,0) then the tree at
\* (10,0,5), and the spawn points (0,1,0), (10,1,5).
C10_TitleAsDocumented ==
    EndToEndExample =>
        /\ EndToEndPlacement(last.body.world_blueprint)
        /\ last.body.world_blueprint.title = TitleAsDocumented

\* C10 amended: the example's blueprint is fantasy, has the five-word title
\* 'A Magical Forest With Ancient World', the castle at (0,0,0) then the tree
\* at (10,0,5), and the spawn points (0,1,0), (10,1,5).
C10_EndToEnd ==
    EndToEndExample =>
        /\ EndToEndPlacement(last.body.world_blueprint)
        /\ last.body.world_blueprint.title = TitleFiveWords

C10_Witness ==
    /\ EndToEndExample
    /\ Len(last.body.world_blueprint.prefab_instances) = 2
    /\ last.body.world_blueprint.id \in DOMAIN world_blueprints

\* C11 as stated: a call of generate_world_from_prompt leaves the stored
\* world blueprints as they were.
C11_GenerateDoesNotPersist ==
    [][ (calls' = calls + 1 /\ last'.kind = "call") =>
            world_blueprints' = world_blueprints ]_vars

\* C12: when the two instance ids drawn for a blueprint coincide, the request
\* is answered 500, which is neither the 422 of a validation failure nor a
\* 400; the response carries no blueprint, no row is stored, and so no
\* blueprint with fewer instances is handed out either.
C12_DuplicateIdIsServerError ==
    [][ \A now \in Clock,
           uuids \in { u \in uuid4_draws(world_blueprints) : u[1] = u[2] } :
            ( /\ calls' = calls + 1
              /\ Authenticated(last')
              /\ last'.request.body.user_id # None
              /\ ~OutsideContract(last'.request.body)
              /\ blueprint_text_of[last'.request.body].world_type
                     \in {"fantasy", "sci_fi"}
              /\ get_current_user_id(last'.request.authorization, now) = last'.user
              /\ convert_prompt_to_world(last'.request, now, uuids) )
            => /\ last'.status = 500
               /\ last'.status \notin {400, 422}
               /\ ~last'.body.success
               /\ "world_blueprint" \notin DOMAIN last'.body
               /\ world_blueprints' = world_blueprints ]_vars

C12_Witness ==
    /\ Authenticated(last)
    /\ last.request.body.prompt = PromptMagicCity
    /\ last.request.body.world_type = None
    /\ last.status = 500
    /\ last.body.detail = "ValidationError"

\* the collections a call's frame refers to
Refs(frame) ==
    { frame.locals.environment_settings, frame.locals.prefab_instances,
      frame.locals.spawn_points } \ {0}

\* what generate_world_from_prompt does for the request and the identifiers of
\* a finished call when nothing else runs and nothing is stored
RunAlone(frame) ==
    generate_world_from_prompt(frame.arg, << >>, << >>, frame.uuids)

Served(kind) == (requests' = requests + 1 \/ calls' = calls + 1) /\ last'.kind = kind

\* C14: a generation answered 200 with a blueprint of id X leaves a row keyed
\* X in world_blueprints; no endpoint removes a row; and a valid, authenticated
\* publish request for an id that has a row is answered 200 with a card whose
\* world_blueprint_id is that id and whose title is the request's title, the
\* card being stored.
C14_PublishAfterGenerate ==
    [][ /\ DOMAIN world_blueprints \subseteq DOMAIN world_blueprints'
        /\ (Served("http") /\ last'.status = 200)
           => last'.body.world_blueprint.id \in DOMAIN world_blueprints'
        /\ ( /\ Served("publish")
             /\ last'.user # None
             /\ PublishRequest_valid(last'.request.body)
             /\ last'.request.body.world_blueprint_id \in DOMAIN world_blueprints )
           => /\ last'.status = 200
              /\ last'.body.experience_card.world_blueprint_id =
                     last'.request.body.world_blueprint_id
              /\ last'.body.experience_card.title = last'.request.body.title
              /\ experience_cards' = Append(experience_cards,
                                            last'.body.experience_card) ]_vars

\* a blueprint was generated and then published under the title "Test"
C14_Witness ==
    /\ last.kind = "publish"
    /\ last.status = 200
    /\ last.request.body.world_blueprint_id \in DOMAIN world_blueprints
    /\ last.body.experience_card.title = ExperienceTitle
    /\ world_blueprints[last.request.body.world_blueprint_id].title # ExperienceTitle
    /\ Len(experience_cards) = 1

\* C15: a valid, authenticated publish request that names an id with no row
\* in world_blueprints is answered 404 and no experience card is created.
C15_PublishUnknownBlueprint ==
    [][ ( /\ Served("publish")
          /\ last'.user # None
          /\ PublishRequest_valid(last'.request.body)
          /\ last'.request.body.world_blueprint_id \notin DOMAIN world_blueprints )
        => /\ last'.status = 404
           /\ experience_cards' = experience_cards ]_vars

\* the id "non-existent-id" was published while another blueprint was stored
C15_Witness ==
    /\ last.kind = "publish"
    /\ last.status = 404
    /\ last.request.body.world_blueprint_id = non_existent_id
    /\ DOMAIN world_blueprints # {}
    /\ experience_cards = << >>

\* a step that answered a request to the /auth endpoint of this kind
ServedAuth(kind) == auth_requests' = auth_requests + 1 /\ last'.kind = kind

\* a login body whose user_id is missing, empty or whitespace only
BlankUserId(body) ==
    \/ body.user_id.type = "absent"
    \/ /\ body.user_id.type = "str"
       /\ \A i \in 1..Len(body.user_id.value) : body.user_id.value[i] \in whitespace

\* C16 as stated: a login request whose user_id is missing, empty or
\* whitespace only is answered 400 and creates no session record.
C16_BlankUserIdIs400 ==
    [][ (ServedAuth("login") /\ BlankUserId(last'.request))
        => (last'.status = 400 /\ user_sessions' = user_sessions) ]_vars

\* C17 as stated: GET /auth/validate without an Authorization header is
\* answered 401.
C17_ValidateWithoutHeaderIs401 ==
    [][ (ServedAuth("validate") /\ last'.request.kind = "absent")
        => last'.status = 401 ]_vars

\* the rows of user_sessions that hold this token, are active and have not
\* reached expires_at
LiveSessions(token) ==
    { i \in DOMAIN user_sessions :
        /\ user_sessions[i].token = token
        /\ user_sessions[i].is_active
        /\ utcnow < user_sessions[i].expires_at }

\* a header of the form "Bearer <token>"
BearerHeader(authorization) ==
    /\ authorization.kind = "two_parts"
    /\ authorization.scheme = <<"B", "e", "a", "r", "e", "r">>

C19_Logout ==
    [][ (ServedAuth("logout") /\ BearerHeader(last'.request))
        => IF LiveSessions(last'.request.token) # {}
           THEN /\ last'.status = 200
                /\ \E i \in LiveSessions(last'.request.token) :
                       user_sessions' = [user_sessions EXCEPT ![i].is_active = FALSE]
           ELSE /\ last'.status = 401
                /\ user_sessions' = user_sessions ]_vars

\* a second logout with the token of a session that is logged out already
C19_Witness ==
    /\ last.kind = "logout"
    /\ last.status = 401
    /\ \E i \in DOMAIN user_sessions :
           /\ user_sessions[i].token = last.request.token
           /\ ~user_sessions[i].is_active
           /\ utcnow < user_sessions[i].expires_at

\* the kinds of exchange of the endpoints behind get_current_user_id
ProtectedKinds ==
    {"http", "publish", "experiences", "experience", "telemetry", "telemetry_batch",
     "user_events", "prefab_catalog", "prefab", "prefab_search"}

\* a token that fails validation at time t: signed with another key, past
\* its expiry, or without a subject
FailsValidation(token, t) ==
    \/ token.key # secret_key
    \/ token.exp < t
    \/ token.sub \in {None, ""}

\* no Authorization header, a header that is not "<scheme> <token>", a scheme
\* other than Bearer (in any case), or a token that fails validation
Unauthorized(authorization, t) ==
    \/ authorization.kind = "absent"
    \/ authorization.kind = "one_part"
    \/ /\ authorization.kind = "two_parts"
       /\ \/ lower(authorization.scheme) # <<"b", "e", "a", "r", "e", "r">>
          \/ FailsValidation(authorization.token, t)

CaseVariants(s) ==
    { [s EXCEPT ![i] = char_upper(@)] : i \in DOMAIN s }
        \cup { [s EXCEPT ![i] = char_lower(@)] : i \in DOMAIN s }
        \cup { [i \in DOMAIN s |-> char_upper(s[i])], [i \in DOMAIN s |-> char_lower(s[i])] }

\* a and b are the same character or the two cases of one ASCII letter
SameAsciiLetter(a, b) ==
    \/ a = b
    \/ \E k \in DOMAIN ascii_lowercase : {a, b} = {ascii_lowercase[k], ascii_uppercase[k]}

\* C22 as stated: changing the letter case of any characters of a prompt never
\* changes the category _infer_world_type returns.
C22_AnyCaseChange ==
    ret.called =>
        \A v \in CaseVariants(arg) : _infer_world_type(v) = ret.world_type

\* C22: changing the case of ASCII letters of a prompt never changes the
\* category; the category returned is a function of the prompt alone, and the
\* call leaves the store and the objects as they were.
C22_AsciiCaseInsensitive ==
    ret.called =>
        /\ \A v \in CaseVariants(arg) :
              (\A i \in DOMAIN arg : SameAsciiLetter(v[i], arg[i]))
              => _infer_world_type(v) = ret.world_type
        /\ ret.world_type = _infer_world_type(arg)
        /\ world_blueprints = << >>
        /\ heap = << >>

\* "DRAGON space" was classified: its lower-case form and the forms with one
\* letter changed are classified as fantasy too
C22_Witness ==
    /\ ret.called
    /\ arg = <<"D", "R", "A", "G", "O", "N", " ", "s", "p", "a", "c", "e">>
    /\ ret.world_type = "fantasy"

\* the maximal runs of non-whitespace characters of s, as <<first, last>>
WordSpans(s) ==
    { span \in (1..Len(s)) \X (1..Len(s)) :
        /\ span[1] <= span[2]
        /\ \A k \in span[1]..span[2] : s[k] \notin whitespace
        /\ (span[1] = 1 \/ s[span[1] - 1] \in whitespace)
        /\ (span[2] = Len(s) \/ s[span[2] + 1] \in whitespace) }

\* the k-th whitespace-separated word of s
Word(s, k) ==
    LET span == CHOOSE a \in WordSpans(s) :
                    Cardinality({b \in WordSpans(s) : b[1] < a[1]}) = k - 1
    IN  SubSeq(s, span[1], span[2])

\* a word title-cased: a letter is upper case when it starts the word or
\* follows a character that is not a letter, lower case otherwise
TitleCased(w) ==
    [i \in 1..Len(w) |->
        IF w[i] \notin uppercase_letters \cup lowercase_letters THEN w[i]
        ELSE IF i = 1 \/ w[i - 1] \notin uppercase_letters \cup lowercase_letters
        THEN char_upper(w[i])
        ELSE char_lower(w[i])]

\* the first n words of s, title-cased, with one space between them
RECURSIVE TitleOfWords(_, _, _)
TitleOfWords(s, k, n) ==
    IF k > n THEN << >>
    ELSE TitleCased(Word(s, k))
             \o (IF k < n THEN <<" ">> ELSE << >>) \o TitleOfWords(s, k + 1, n)

\* C23: the title is the first five whitespace-separated words of the prompt,
\* all of them when there are fewer, each title-cased, joined by single
\* spaces, followed by " World".
C23_TitleOfFirstFiveWords ==
    ret.called =>
        LET n == Cardinality(WordSpans(arg)) IN
        ret.title = TitleOfWords(arg, 1, IF n < 5 THEN n ELSE 5)
                        \o <<" ", "W", "o", "r", "l", "d">>

\* a prompt of six words with tabs between them got the title of its first
\* five words
C23_Witness ==
    /\ ret.called
    /\ Cardinality(WordSpans(arg)) = 6
    /\ \E i \in DOMAIN arg : arg[i] = "\t"
    /\ Word(arg, 2) = <<"s", "c", "i", "-", "F", "I">>
    /\ Word(arg, 6) = <<"U", "p">>
    /\ ret.title = <<"A", " ", "S", "c", "i", "-", "F", "i", " ", "A", " ", "A", " ", "A",
                     " ", "W", "o", "r", "l", "d">>

\* C24 as stated: of the statements a generate call has executed, the one
\* just before the synthesizer (_create_world_blueprint) is a clock read and,
\* once the call has returned, so is the one just after it; the processing
\* time stored on the returned blueprint is not negative.
C24_ClockReadsAroundSynthesizer ==
    /\ \A k \in DOMAIN ret.executed :
          ret.executed[k] = "_create_world_blueprint"
          => /\ k > 1 /\ ret.executed[k - 1] = "time.time"
             /\ ret.pc = "returned" => ret.executed[k + 1] = "time.time"
    /\ ret.pc = "returned" => ret.processing_time_ms >= 0

SettingsKeys == {"lighting", "weather", "ambient_sound", "skybox"}

OwnSettings == {"fantasy", "sci_fi", "realistic", "urban", "nature"}

\* C25: every call of the environment-settings lookup, for any of the eight
\* categories, returns a map with exactly the keys lighting, weather,
\* ambient_sound and skybox; two calls for the same category return the same
\* map, two calls for different categories among fantasy, sci-fi, realistic,
\* urban and nature return different maps, and a call for surreal,
\* historical or space returns what a call for realistic returns.
C25_SettingsLookup ==
    \A i \in DOMAIN held :
        /\ held[i].world_type \in WorldType
        /\ DOMAIN held[i].settings = SettingsKeys
        /\ \A j \in DOMAIN held :
              /\ held[i].world_type = held[j].world_type
                 => held[i].settings = held[j].settings
              /\ ( /\ held[i].world_type \in OwnSettings
                   /\ held[j].world_type \in OwnSettings
                   /\ held[i].world_type # held[j].world_type )
                 => held[i].settings # held[j].settings
              /\ ( /\ held[i].world_type \in WorldType \ OwnSettings
                   /\ held[j].world_type = "realistic" )
                 => held[i].settings = held[j].settings

C25_Witness ==
    /\ Len(held) = MaxServiceCalls
    /\ held[1].world_type = "space"
    /\ held[2].world_type = "realistic"
    /\ held[3].world_type = "nature"
    /\ held[1].settings.skybox = "realistic_sky"

\* the sessions that have been logged out
LoggedOut(db) == { i \in DOMAIN db : ~db[i].is_active }

\* C26: after a session has been invalidated, validate_token on its token
\* still returns the session's user id as long as the clock has not passed
\* the token's expiry, and None afterwards; a protected endpoint (the prefab
\* catalog) called with "Bearer <that token>" before the expiry has passed is
\* answered 200 for that user.
C26_LoggedOutTokenStillAccepted ==
    [][ \A i \in LoggedOut(user_sessions') :
           /\ validate_token(user_sessions'[i].token, utcnow') =
                 IF utcnow' <= user_sessions'[i].token.exp
                 THEN user_sessions'[i].user_id
                 ELSE None
           /\ ( /\ Served("prefab_catalog")
                /\ i \in LoggedOut(user_sessions)
                /\ last'.request.authorization =
                      Authorization(<<"B", "e", "a", "r", "e", "r">>, user_sessions[i].token)
                /\ utcnow <= user_sessions[i].token.exp )
              => /\ last'.status = 200
                 /\ last'.user = user_sessions[i].user_id ]_vars

\* the catalog served to the token of a session that is logged out
C26_Witness ==
    /\ last.kind = "prefab_catalog"
    /\ last.status = 200
    /\ last.request.authorization.kind = "two_parts"
    /\ \E i \in LoggedOut(user_sessions) :
           /\ user_sessions[i].token = last.request.authorization.token
           /\ user_sessions[i].user_id = last.user

\* C27: GET /auth/validate with "Bearer <token>" answers valid = true only
\* when the token has a session record that is active and not expired at the
\* time of the call; when the token's session has been logged out, or its
\* expiry time has passed, the answer is 401.
C27_ValidOnlyForLiveSession ==
    [][ (ServedAuth("validate") /\ BearerHeader(last'.request))
        => /\ last'.status \in {200, 401}
           /\ last'.status = 200
              => /\ last'.body.valid
                 /\ LiveSessions(last'.request.token) # {}
           /\ ( \E i \in DOMAIN user_sessions :
                   /\ user_sessions[i].token = last'.request.token
                   /\ \/ ~user_sessions[i].is_active
                      \/ user_sessions[i].expires_at < utcnow )
              => last'.status = 401 ]_vars

\* a validation of the token of a logged-out session before its expiry: the
\* token itself is still good, the session is not found
C27_Witness ==
    /\ last.kind = "validate"
    /\ last.status = 401
    /\ last.request.kind = "two_parts"
    /\ \E i \in LoggedOut(user_sessions) :
           /\ user_sessions[i].token = last.request.token
           /\ user_sessions[i].user_id = last.user
           /\ utcnow < user_sessions[i].expires_at

\* C28: under any sequence of create_session, invalidate_session and
\* cleanup_expired_sessions calls no session row disappears and a session
\* that is inactive stays inactive; a cleanup_expired_sessions call leaves
\* every session whose expiry time is not earlier than the current time
\* unchanged and changes nothing but the active flag of the others.
C28_ActiveOnlyGoesFalse ==
    [][ /\ \A i \in DOMAIN user_sessions :
              /\ i \in DOMAIN user_sessions'
              /\ ~user_sessions[i].is_active => ~user_sessions'[i].is_active
        /\ (calls' = calls + 1 /\ ret'.called = "cleanup_expired_sessions")
           => /\ DOMAIN user_sessions' = DOMAIN user_sessions
              /\ \A i \in DOMAIN user_sessions :
                    IF user_sessions[i].expires_at < utcnow
                    THEN user_sessions'[i] = [user_sessions[i] EXCEPT !.is_active = FALSE]
                    ELSE user_sessions'[i] = user_sessions[i] ]_vars

\* after a cleanup: an expired session that it has deactivated and a session
\* not yet expired that is still active
C28_Witness ==
    /\ calls > 0
    /\ ret.called = "cleanup_expired_sessions"
    /\ ret.returned = 1
    /\ \E i, j \in DOMAIN user_sessions :
           /\ user_sessions[i].expires_at < utcnow
           /\ ~user_sessions[i].is_active
           /\ user_sessions[j].expires_at >= utcnow
           /\ user_sessions[j].is_active

\* C29 as stated: every create_session call succeeds, and the stored sessions
\* have pairwise distinct tokens and pairwise distinct session ids.
C29_EveryCreateSessionSucceeds ==
    /\ (calls > 0 /\ ret.called = "create_session") => ret.raised = ""
    /\ \A i, j \in DOMAIN user_sessions :
          i # j => /\ user_sessions[i].token # user_sessions[j].token
                   /\ user_sessions[i].session_id # user_sessions[j].session_id

RECURSIVE ReturnedTrue(_)
\* the calls of callers 1..t that have returned True
ReturnedTrue(t) == IF t = 0 THEN 0 ELSE threads[t].returned_true + ReturnedTrue(t - 1)

\* C30 as stated: whenever no increment_play_count call is in progress, the
\* experience's play_count is its initial value plus the number of calls
\* that have returned True.
C30_NoLostUpdate ==
    (\A t \in DOMAIN threads : threads[t].pc = "idle")
    => experience_cards[1].play_count = arg + ReturnedTrue(NumThreads)

====
